---- MODULE Spec2Model ----
(***************************************************************************)
(* Model of the AIVision prompt pipeline: response parsing and result      *)
(* assertion (genai.py, library.py), prompt assembly and message           *)
(* formatting (genai.py) and attachment processing (attachments.py).       *)
(*                                                                         *)
(* Python strings are sequences of one-character strings; byte strings     *)
(* are sequences of integers 0..255.                                       *)
(***************************************************************************)
EXTENDS Integers, Sequences, FiniteSets, TLC

VARIABLES
    pc,            \* position of the modelled call: "start" or the name of the finished call
    response,      \* the raw response text: parser input, reply returned by chat_completion
    stub,          \* NoStub, or the (result, explanation) pair a replaced extractor returns
    parsed,        \* (result, explanation) returned by the extractor
    outcome,       \* how the finished call ended: "none", "returned", "passed" or the exception raised
    message,       \* message of the raised exception (empty when nothing was raised)
    ai_platform,   \* GenAI.ai_platform: the AIPlatform record of the session
    client,        \* GenAI.client: NoClient or the OpenAI client (its base_url and api_key)
    existing,      \* the paths for which os.path.isfile holds
    prompt,        \* messages returned by the last _prepare_prompt
    sent,          \* the request handed to client.chat.completions.create by the last call
    args,          \* arguments of the last call
    processor,     \* the AttachmentProcessor: supports_vision, max_bytes, max_chars, pdf_max_pages
    file,          \* the attachment: its path, its bytes, whether it exists
    pdf,           \* what the PDF library does with the attachment
    items,         \* content items returned by prepare_attachment_content
    locals,        \* size, mime_type, kind, truncated, header, body of the finished call
    temp_dirs,     \* number of directories made by tempfile.mkdtemp
    calls,         \* the generate_ai_response calls made by the last keyword, in order
    log,           \* the records the last keyword handed to robot.api.logger, in order
    combined,      \* the combine_images_on_paths_side_by_side calls made by the last keyword
    threads        \* the concurrent prepare_attachment_content calls: position and locals of each

parseVars == <<pc, response, stub, parsed, outcome, message>>
sessionVars == <<ai_platform, client, existing, prompt, sent, args>>
attachVars == <<processor, file, pdf, items, locals, temp_dirs>>
libraryVars == <<calls, log, combined>>
threadVars == <<threads>>
vars == <<parseVars, sessionVars, attachVars, libraryVars, threadVars>>

----------------------------------------------------------------------------
(* Bounds *)

MaxSegs == 4          \* a response is built from at most this many segments
MaxPaths == 2         \* a call is given at most this many image paths
MaxFileLen == 3       \* a text attachment has at most this many bytes
MaxBudget == 2        \* max_bytes, max_chars and pdf_max_pages are at most this
MaxPdfPages == 2      \* a PDF has at most this many pages
NumThreads == 2       \* calls running concurrently on one instance
MaxPageLen == 2       \* the text of a PDF page has at most this many characters

----------------------------------------------------------------------------
(* Python str primitives *)

None == <<"<None>">>          \* Python None (no one-character string equals "<None>")

Min(a, b) == IF a < b THEN a ELSE b

\* characters str.strip() removes
Whitespace == {" ", "\n", "\t", "\r"}

UpperCase == <<"A","B","C","D","E","F","G","H","I","J","K","L","M",
               "N","O","P","Q","R","S","T","U","V","W","X","Y","Z">>
LowerCase == <<"a","b","c","d","e","f","g","h","i","j","k","l","m",
               "n","o","p","q","r","s","t","u","v","w","x","y","z">>

LowerChar(c) ==
    IF \E i \in 1..26 : UpperCase[i] = c
    THEN LowerCase[CHOOSE i \in 1..26 : UpperCase[i] = c]
    ELSE c

\* str.lower()
Lower(s) == [i \in 1..Len(s) |-> LowerChar(s[i])]

\* str.strip(): drop leading and trailing whitespace
Strip(s) ==
    LET keep == {i \in 1..Len(s) : s[i] \notin Whitespace}
    IN  IF keep = {} THEN <<>>
        ELSE LET lo == CHOOSE i \in keep : \A j \in keep : i <= j
                 hi == CHOOSE i \in keep : \A j \in keep : j <= i
             IN  SubSeq(s, lo, hi)

\* str.find(sep): index of the leftmost occurrence of sep in s, 0 when there is none
Find(s, sep) ==
    LET hits == {i \in 1..(Len(s) - Len(sep) + 1) : SubSeq(s, i, i + Len(sep) - 1) = sep}
    IN  IF hits = {} THEN 0 ELSE CHOOSE i \in hits : \A j \in hits : i <= j

\* str.split(sep, 1): cut at the leftmost occurrence of sep
Split1(s, sep) ==
    LET i == Find(s, sep)
    IN  IF i = 0 THEN <<s>>
        ELSE <<SubSeq(s, 1, i - 1), SubSeq(s, i + Len(sep), Len(s))>>

----------------------------------------------------------------------------
(* Response parser: GenAI.extract_result_and_explanation_from_response *)

RESULT_MARKER      == <<"R","E","S","U","L","T",":">>
EXPLANATION_MARKER == <<"E","X","P","L","A","N","A","T","I","O","N",":">>
FAIL_TOKEN         == <<"f","a","i","l">>
PASS_TOKEN         == <<"p","a","s","s">>

\* str.rfind(sep): index of the rightmost occurrence of sep in s, 0 when there is none
FindLast(s, sep) ==
    LET hits == {i \in 1..(Len(s) - Len(sep) + 1) : SubSeq(s, i, i + Len(sep) - 1) = sep}
    IN  IF hits = {} THEN 0 ELSE CHOOSE i \in hits : \A j \in hits : j <= i

\* variant: a response without the RESULT: marker is read as a bare outcome token
extract_unmarked_as_token(resp) ==
    LET parts == Split1(resp, RESULT_MARKER)
    IN  IF Len(parts) < 2 THEN <<Strip(resp), resp>>
        ELSE LET result_and_explanation == Strip(parts[2])
                 parts2 == Split1(result_and_explanation, EXPLANATION_MARKER)
             IN  IF Len(parts2) < 2 THEN <<Strip(parts2[1]), resp>>
                 ELSE <<Strip(parts2[1]), Strip(parts2[2])>>

\* variant: the remainder is cut at the last EXPLANATION: marker (rsplit)
extract_split_at_last_explanation(resp) ==
    LET parts == Split1(resp, RESULT_MARKER)
    IN  IF Len(parts) < 2 THEN <<FAIL_TOKEN, resp>>
        ELSE LET result_and_explanation == Strip(parts[2])
                 j == FindLast(result_and_explanation, EXPLANATION_MARKER)
             IN  IF j = 0 THEN <<Strip(result_and_explanation), resp>>
                 ELSE <<Strip(SubSeq(result_and_explanation, 1, j - 1)),
                        Strip(SubSeq(result_and_explanation, j + Len(EXPLANATION_MARKER),
                                     Len(result_and_explanation)))>>

\* variant: without EXPLANATION: the explanation is the text after RESULT:, not the raw response
extract_explanation_from_remainder(resp) ==
    LET parts == Split1(resp, RESULT_MARKER)
    IN  IF Len(parts) < 2 THEN <<FAIL_TOKEN, resp>>
        ELSE LET result_and_explanation == Strip(parts[2])
                 parts2 == Split1(result_and_explanation, EXPLANATION_MARKER)
             IN  IF Len(parts2) < 2 THEN <<Strip(parts2[1]), result_and_explanation>>
                 ELSE <<Strip(parts2[1]), Strip(parts2[2])>>

extract_result_and_explanation_from_response(resp) ==
    LET parts == Split1(resp, RESULT_MARKER)
    IN  IF Len(parts) < 2 THEN <<FAIL_TOKEN, resp>>
        ELSE LET result_and_explanation == Strip(parts[2])
                 parts2 == Split1(result_and_explanation, EXPLANATION_MARKER)
             IN  IF Len(parts2) < 2 THEN <<Strip(parts2[1]), resp>>
                 ELSE <<Strip(parts2[1]), Strip(parts2[2])>>

----------------------------------------------------------------------------
(* Result assertion: AIVision._assert_result *)

\* variant: the token is compared with "pass" case-sensitively
ResultIsPassExact(result) ==
    /\ result # None
    /\ result # <<>>
    /\ result = PASS_TOKEN

\* the condition `result and result.lower() == "pass"`
ResultIsPass(result) ==
    /\ result # None
    /\ result # <<>>
    /\ Lower(result) = PASS_TOKEN

VERIFICATION_FAILED == <<"V","e","r","i","f","i","c","a","t","i","o","n"," ",
                         "f","a","i","l","e","d",":","\n">>

----------------------------------------------------------------------------
(* Platform configuration: Platforms, AIPlatform *)

NoneStr == "None"             \* Python None in a field that otherwise holds a str

NoClient == [none |-> TRUE]   \* GenAI.client = None

NoArgs == [none |-> TRUE]     \* no call was made yet

\* no keyword of the library has run
NoKeyword ==
    /\ calls = <<>>
    /\ log = <<>>
    /\ combined = <<>>

\* no concurrent call is under way
NoThreads == threads = <<>>

\* the attachment variables while no attachment is processed
NoAttachment ==
    /\ processor = [none |-> TRUE]
    /\ file = [none |-> TRUE]
    /\ pdf = [none |-> TRUE]
    /\ items = <<>>
    /\ locals = [none |-> TRUE]
    /\ temp_dirs = 0

NoPlatform == [name |-> "None"]

Ollama == [name |-> "Ollama",
           default_model |-> "qwen3-coder:480b-cloud",
           default_base_url |-> "http://localhost:11434/v1",
           api_key_required |-> FALSE,
           supports_vision |-> TRUE]

Perplexity == [name |-> "Perplexity",
               default_model |-> "sonar-pro",
               default_base_url |-> "https://api.perplexity.ai",
               api_key_required |-> TRUE,
               supports_vision |-> TRUE]

DEFAULT_IMG_DETAIL == "high"

\* `a or b` on optional strings
OrElse(a, b) == IF a # NoneStr /\ a # "" THEN a ELSE b

\* AIPlatform.__init__: the fields of the constructed object
AIPlatform(platform, base_url, api_key, model, image_detail) ==
    [platform        |-> platform.name,
     base_url        |-> OrElse(base_url, IF platform # NoPlatform THEN platform.default_base_url ELSE NoneStr),
     model           |-> OrElse(model, IF platform # NoPlatform THEN platform.default_model ELSE NoneStr),
     detail          |-> image_detail,
     api_key         |-> api_key,
     supports_vision |-> IF platform # NoPlatform THEN platform.supports_vision ELSE FALSE]

\* AIPlatform.__init__ raises ValueError("<name> requires an API key")
AIPlatformRaises(platform, api_key) ==
    /\ platform # NoPlatform
    /\ platform.api_key_required
    /\ api_key \in {NoneStr, ""}

----------------------------------------------------------------------------
(* Files *)

\* a path, already split as os.path.splitext does: stem and extension
Path(stem, ext) == [stem |-> stem, ext |-> ext]

ShotPng    == Path("shot", <<".","p","n","g">>)
TemplateJpg == Path("template", <<".","J","P","G">>)
OtherGif   == Path("other", <<".","g","i","f">>)
NotesTxt   == Path("notes", <<".","t","x","t">>)

ImagePaths == {ShotPng, TemplateJpg, OtherGif}

\* images handed over in hand-made messages only
ScanBmp   == Path("scan", <<".","b","m","p">>)
IconWebp  == Path("icon", <<".","w","e","b","p">>)
PhotoJpeg == Path("photo", <<".","j","p","e","g">>)

MessageImagePaths == {ScanBmp, IconWebp, PhotoJpeg}

AttachmentPaths == {NotesTxt}

\* bytes of the image files
FileBytes(path) ==
    IF path = ShotPng THEN <<137, 80, 78, 71>>
    ELSE IF path = TemplateJpg THEN <<255, 216>>
    ELSE IF path = ScanBmp THEN <<66, 77>>
    ELSE IF path = IconWebp THEN <<82>>
    ELSE IF path = PhotoJpeg THEN <<255, 216, 255>>
    ELSE <<71, 73, 70>>

----------------------------------------------------------------------------
(* base64.b64encode *)

Digits == <<"0","1","2","3","4","5","6","7","8","9">>

B64Alphabet == UpperCase \o LowerCase \o Digits \o <<"+","/">>

B64Char(n) == B64Alphabet[n + 1]

RECURSIVE b64encode(_)
b64encode(data) ==
    IF Len(data) = 0 THEN <<>>
    ELSE IF Len(data) = 1 THEN
        <<B64Char(data[1] \div 4), B64Char((data[1] % 4) * 16), "=", "=">>
    ELSE IF Len(data) = 2 THEN
        <<B64Char(data[1] \div 4),
          B64Char((data[1] % 4) * 16 + data[2] \div 16),
          B64Char((data[2] % 16) * 4), "=">>
    ELSE
        <<B64Char(data[1] \div 4),
          B64Char((data[1] % 4) * 16 + data[2] \div 16),
          B64Char((data[2] % 16) * 4 + data[3] \div 64),
          B64Char(data[3] % 64)>>
        \o b64encode(SubSeq(data, 4, Len(data)))

----------------------------------------------------------------------------
(* Prompt assembly: GenAI._prepare_prompt *)

\* Text built by an f-string is a sequence of its pieces: the literal parts
\* and the interpolated values.

AUTOMATOR_INSTRUCTION == <<"AUTOMATOR_INSTRUCTION">>

TextBlock(text)  == [type |-> "text", text |-> text]
ImageBlock(path) == [type |-> "image", image_path |-> path]

Returned(value) == [raised |-> "", msg |-> <<>>, value |-> value]
Raised(exc, msg) == [raised |-> exc, msg |-> msg, value |-> <<>>]

\* index of the first path that is not a file, 0 when all are files
FirstMissing(image_paths, files) ==
    LET missing == {i \in 1..Len(image_paths) : image_paths[i] \notin files}
    IN  IF missing = {} THEN 0 ELSE CHOOSE i \in missing : \A j \in missing : i <= j

\* variant: the image blocks are appended in reverse order
_prepare_prompt_reversed(system_prompt, instruction, image_paths, supports_vision, files) ==
    LET content == <<TextBlock(system_prompt), TextBlock(instruction)>>
    IN  IF image_paths # <<>> /\ supports_vision
        THEN IF FirstMissing(image_paths, files) # 0
             THEN Raised("FileNotFoundError",
                         <<"Image not found: ", image_paths[FirstMissing(image_paths, files)]>>)
             ELSE Returned(<<[role |-> "user",
                              content |-> content \o
                                  [i \in 1..Len(image_paths) |->
                                      ImageBlock(image_paths[Len(image_paths) + 1 - i])]]>>)
        ELSE Returned(<<[role |-> "user", content |-> content]>>)

_prepare_prompt(system_prompt, instruction, image_paths, supports_vision, files) ==
    LET content == <<TextBlock(system_prompt), TextBlock(instruction)>>
    IN  IF image_paths # <<>> /\ supports_vision
        THEN IF FirstMissing(image_paths, files) # 0
             THEN Raised("FileNotFoundError",
                         <<"Image not found: ", image_paths[FirstMissing(image_paths, files)]>>)
             ELSE Returned(<<[role |-> "user",
                              content |-> content \o
                                  [i \in 1..Len(image_paths) |-> ImageBlock(image_paths[i])]]>>)
        ELSE Returned(<<[role |-> "user", content |-> content]>>)

----------------------------------------------------------------------------
(* Message formatting: GenAI._format_messages_for_openai, _encode_image_to_base64 *)

PngExt  == <<".","p","n","g">>
JpgExt  == <<".","j","p","g">>
JpegExt == <<".","j","p","e","g">>
GifExt  == <<".","g","i","f">>
WebpExt == <<".","w","e","b","p">>

\* variant: an extension missing from the table gives a generic binary type
ImageMimeOctetStream(path) ==
    LET ext == Lower(path.ext)
    IN  IF ext = PngExt THEN "image/png"
        ELSE IF ext \in {JpgExt, JpegExt} THEN "image/jpeg"
        ELSE IF ext = GifExt THEN "image/gif"
        ELSE IF ext = WebpExt THEN "image/webp"
        ELSE "application/octet-stream"

\* mime_types.get(ext, 'image/png') on the lower-cased extension
ImageMime(path) ==
    LET ext == Lower(path.ext)
    IN  IF ext = PngExt THEN "image/png"
        ELSE IF ext \in {JpgExt, JpegExt} THEN "image/jpeg"
        ELSE IF ext = GifExt THEN "image/gif"
        ELSE IF ext = WebpExt THEN "image/webp"
        ELSE "image/png"

\* the data URI f"data:{mime_type};base64,{image_data}" of a readable file
_encode_image_to_base64(image_path) ==
    <<"data:", ImageMime(image_path), ";base64,">> \o b64encode(FileBytes(image_path))

NoImagePath == Path("", <<>>)      \* an image item whose image_path is missing or empty

\* variant: an image item is rendered whatever the platform supports
RendersImageAlways(item, platform) ==
    item.image_path # NoImagePath

\* the image item is rendered: `if image_path and self.ai_platform.supports_vision`
RendersImage(item, platform) ==
    item.image_path # NoImagePath /\ platform.supports_vision

RECURSIVE FormatContent(_, _)
FormatContent(content_items, platform) ==
    IF content_items = <<>> THEN <<>>
    ELSE LET item == Head(content_items)
             rest == FormatContent(Tail(content_items), platform)
         IN  IF item.type = "image" THEN
                 IF RendersImage(item, platform)
                 THEN <<[type |-> "image_url",
                         image_url |-> [url |-> _encode_image_to_base64(item.image_path),
                                        detail |-> platform.detail]]>> \o rest
                 ELSE rest
             ELSE IF item.type = "text" THEN <<[type |-> "text", text |-> item.text]>> \o rest
             ELSE rest

\* the image paths open() is called on while formatting, in order
RECURSIVE OpenedPaths(_, _)
OpenedPaths(messages, platform) ==
    IF messages = <<>> THEN <<>>
    ELSE LET content_items == Head(messages).content
             imgs == SelectSeq(content_items, LAMBDA item : item.type = "image" /\ RendersImage(item, platform))
         IN  [i \in 1..Len(imgs) |-> imgs[i].image_path] \o OpenedPaths(Tail(messages), platform)

_format_messages_for_openai(messages, platform, files) ==
    LET opened == OpenedPaths(messages, platform)
    IN  IF FirstMissing(opened, files) # 0
        THEN Raised("FileNotFoundError", <<"No such file or directory: ", opened[FirstMissing(opened, files)]>>)
        ELSE Returned([m \in 1..Len(messages) |->
                          [role |-> messages[m].role,
                           content |-> FormatContent(messages[m].content, platform)]])

----------------------------------------------------------------------------
(* Inputs of the parser specification *)

NoStub == <<>>

Segments == <<
    RESULT_MARKER,
    EXPLANATION_MARKER,
    <<" ">>,
    <<"\n">>,
    PASS_TOKEN,
    <<"P","A","S","S">>,
    FAIL_TOKEN,
    <<"o","k">>,
    <<"R","E","S","U","L","T">>,
    <<":">> >>

RECURSIVE Flatten(_)
Flatten(idx) ==
    IF idx = <<>> THEN <<>>
    ELSE Segments[Head(idx)] \o Flatten(Tail(idx))

Responses ==
    {Flatten(idx) : idx \in UNION {[1..n -> 1..Len(Segments)] : n \in 0..MaxSegs}}

StubExplanation == <<"n","o","t","e">>

\* results a replaced extractor returns in the unit tests (None, "", tokens)
StubResults == {None, <<>>, PASS_TOKEN, <<"P","A","S","S">>, <<"P","a","s","s">>,
                FAIL_TOKEN, <<"F","A","I","L">>, <<"p","a","s","s"," ">>, <<"o","k">>}

StubResponse == <<"A","I">>

----------------------------------------------------------------------------
(* Parser specification: the input is drawn by Init, the actions apply the
   parser and the assertion to it. *)

InitParse ==
    /\ pc = "start"
    /\ \/ response \in Responses /\ stub = NoStub
       \/ response = StubResponse /\ stub \in {<<r, StubExplanation>> : r \in StubResults}
    /\ parsed = <<>>
    /\ outcome = "none"
    /\ message = <<>>
    /\ ai_platform = AIPlatform(Ollama, NoneStr, "ollama", NoneStr, NoneStr)
    /\ client = NoClient
    /\ existing = {}
    /\ prompt = <<>>
    /\ sent = <<>>
    /\ args = NoArgs
    /\ NoAttachment
    /\ NoKeyword
    /\ NoThreads

\* a direct call of the extractor
Extract ==
    /\ pc = "start"
    /\ stub = NoStub
    /\ parsed' = extract_result_and_explanation_from_response(response)
    /\ outcome' = "returned"
    /\ pc' = "extract"
    /\ UNCHANGED <<response, stub, message>>
    /\ UNCHANGED <<sessionVars, attachVars, libraryVars, threadVars>>

\* AIVision._assert_result(response), with the session's extractor (or its replacement)
_assert_result ==
    /\ pc = "start"
    /\ LET res == IF stub = NoStub
                  THEN extract_result_and_explanation_from_response(response)
                  ELSE stub
       IN  /\ parsed' = res
           /\ IF ResultIsPass(res[1])
              THEN outcome' = "passed" /\ message' = <<>>
              ELSE outcome' = "AssertionError" /\ message' = VERIFICATION_FAILED \o res[2]
    /\ pc' = "assert"
    /\ UNCHANGED <<response, stub>>
    /\ UNCHANGED <<sessionVars, attachVars, libraryVars, threadVars>>

NextParse == Extract \/ _assert_result

SpecParse == InitParse /\ [][NextParse]_vars

----------------------------------------------------------------------------
(* Session specification: a GenAI object after construction, and its calls *)

Instructions == {<<"Verify that: ", "logo is green">>, <<"Compare these images">>}

PathSeqs(paths) == UNION {[1..n -> paths] : n \in 0..MaxPaths}

\* replies of the chat-completion endpoint
Replies == {RESULT_MARKER \o <<" ">> \o PASS_TOKEN \o <<"\n">> \o EXPLANATION_MARKER \o <<" ">> \o <<"o","k">>}

\* what client.chat.completions.create does: it returns a reply, or raises
\* an error of some kind whose str() is reply
Transports == {[raises |-> FALSE, kind |-> "", reply |-> r] : r \in Replies}
              \cup {[raises |-> TRUE, kind |-> "APIConnectionError", reply |-> <<"Connection error.">>]}

\* messages a caller hands to chat_completion directly
CustomMessages == {
    <<>>,
    <<[role |-> "user",
       content |-> <<TextBlock(<<"first">>), ImageBlock(ShotPng),
                     TextBlock(<<"second">>), ImageBlock(OtherGif)>>]>>,
    <<[role |-> "system", content |-> <<TextBlock(<<"be brief">>)>>],
      [role |-> "user",
       content |-> <<ImageBlock(TemplateJpg), [type |-> "audio"], ImageBlock(NoImagePath)>>]>>,
    <<[role |-> "assistant",
       content |-> <<ImageBlock(ScanBmp), TextBlock(<<"between">>),
                     ImageBlock(IconWebp), ImageBlock(PhotoJpeg)>>]>> }

OpenAI(base_url, api_key) == [base_url |-> base_url, api_key |-> api_key]

\* GenAI.__init__: the arguments a session is constructed with
Constructions ==
    {[platform |-> p, base_url |-> b, api_key |-> k, image_detail |-> d, initialize |-> i] :
        p \in {Ollama, Perplexity, NoPlatform},
        b \in {NoneStr, "http://custom/v1"},
        k \in {NoneStr, "key"},
        d \in {NoneStr, "low"},
        i \in BOOLEAN}

\* variant: the key is passed on as it was given
ConstructionKeyAsGiven(c) == c.api_key

\* `if platform == Platforms.Ollama and not api_key: api_key = "ollama"`
ConstructionKey(c) ==
    IF c.platform = Ollama /\ c.api_key \in {NoneStr, ""} THEN "ollama" ELSE c.api_key

ConstructionPlatform(c) ==
    AIPlatform(c.platform, c.base_url, ConstructionKey(c), NoneStr, c.image_detail)

\* the constructor returns: neither AIPlatform nor initialize_genai raises
ConstructionSucceeds(c) ==
    /\ ~AIPlatformRaises(c.platform, ConstructionKey(c))
    /\ c.initialize => ConstructionPlatform(c).base_url \notin {NoneStr, ""}

InitSession ==
    /\ \E c \in Constructions :
        /\ ConstructionSucceeds(c)
        /\ c.api_key = NoneStr \/ c.platform = Perplexity
        /\ c.base_url = NoneStr \/ c.platform = NoPlatform
        /\ c.image_detail = NoneStr \/ (c.platform = Ollama /\ c.initialize)
        /\ ai_platform = ConstructionPlatform(c)
        /\ client = IF c.initialize
                    THEN OpenAI(ConstructionPlatform(c).base_url,
                                OrElse(ConstructionPlatform(c).api_key, "default"))
                    ELSE NoClient
    /\ existing \in {AttachmentPaths \cup MessageImagePaths \cup {ShotPng} \cup missing :
                          missing \in SUBSET {TemplateJpg, OtherGif}}
    /\ pc = "start"
    /\ response = <<>>
    /\ stub = NoStub
    /\ parsed = <<>>
    /\ outcome = "none"
    /\ message = <<>>
    /\ prompt = <<>>
    /\ sent = <<>>
    /\ args = NoArgs
    /\ NoAttachment
    /\ NoKeyword
    /\ NoThreads

\* platform objects handed to initialize_genai
PlatformArgs ==
    {AIPlatform(Ollama, NoneStr, "ollama", NoneStr, DEFAULT_IMG_DETAIL),
     AIPlatform(NoPlatform, "http://custom/v1", NoneStr, "llava", DEFAULT_IMG_DETAIL),
     AIPlatform(NoPlatform, NoneStr, NoneStr, NoneStr, DEFAULT_IMG_DETAIL)}

NoPlatformArg == [platform |-> "<no argument>"]

\* variant: self.ai_platform is assigned before the base URL is validated
InitializeGenaiAssigningFirst(arg, self) ==
    IF arg = NoPlatformArg THEN
        [raised |-> "ValueError", msg |-> <<"AI platform not specified">>,
         client |-> self.client, ai_platform |-> self.ai_platform]
    ELSE IF arg.base_url \in {NoneStr, ""} THEN
        [raised |-> "ValueError", msg |-> <<"Base URL is required">>,
         client |-> self.client, ai_platform |-> arg]
    ELSE
        [raised |-> "", msg |-> <<>>,
         client |-> OpenAI(arg.base_url, OrElse(arg.api_key, "default")),
         ai_platform |-> arg]

\* the body of initialize_genai: the exception raised (if any) and the
\* client and ai_platform attributes of self when the call ends
InitializeGenai(arg, self) ==
    IF arg = NoPlatformArg THEN
        [raised |-> "ValueError", msg |-> <<"AI platform not specified">>,
         client |-> self.client, ai_platform |-> self.ai_platform]
    ELSE IF arg.base_url \in {NoneStr, ""} THEN
        [raised |-> "ValueError", msg |-> <<"Base URL is required">>,
         client |-> self.client, ai_platform |-> self.ai_platform]
    ELSE
        [raised |-> "", msg |-> <<>>,
         client |-> OpenAI(arg.base_url, OrElse(arg.api_key, "default")),
         ai_platform |-> arg]

\* GenAI.initialize_genai(ai_platform)
initialize_genai(arg) ==
    /\ pc' = "initialize_genai"
    /\ LET r == InitializeGenai(arg, [client |-> client, ai_platform |-> ai_platform])
       IN  /\ outcome' = IF r.raised = "" THEN "returned" ELSE r.raised
           /\ message' = r.msg
           /\ client' = r.client
           /\ ai_platform' = r.ai_platform
    /\ prompt' = <<>>
    /\ sent' = <<>>
    /\ args' = [ai_platform |-> arg]
    /\ UNCHANGED <<response, stub, parsed, existing, attachVars, libraryVars, threadVars>>

\* GenAI._prepare_prompt(instruction, image_paths)
PreparePrompt(instruction, image_paths) ==
    LET r == _prepare_prompt(AUTOMATOR_INSTRUCTION, instruction, image_paths,
                             ai_platform.supports_vision, existing)
    IN  /\ pc' = "_prepare_prompt"
        /\ outcome' = IF r.raised = "" THEN "returned" ELSE r.raised
        /\ message' = r.msg
        /\ prompt' = r.value
        /\ sent' = <<>>
        /\ args' = [instruction |-> instruction, image_paths |-> image_paths, attachment_paths |-> <<>>]
        /\ UNCHANGED <<response, stub, parsed, ai_platform, client, existing, attachVars, libraryVars, threadVars>>

\* GenAI._prepare_prompt(instruction, image_paths=..., attachment_paths=...): the
\* method has no parameter attachment_paths, so binding the arguments raises
PreparePromptWithAttachments(instruction, image_paths, attachment_paths) ==
    /\ pc' = "_prepare_prompt"
    /\ outcome' = "TypeError"
    /\ message' = <<"_prepare_prompt() got an unexpected keyword argument 'attachment_paths'">>
    /\ prompt' = <<>>
    /\ sent' = <<>>
    /\ args' = [instruction |-> instruction, image_paths |-> image_paths,
                attachment_paths |-> attachment_paths]
    /\ UNCHANGED <<response, stub, parsed, ai_platform, client, existing, attachVars, libraryVars, threadVars>>

\* variant: an error of the request is raised again as it is
ReraiseUnchanged(e) == [kind |-> e.kind, msg |-> e.reply]

\* `except Exception as e: raise Exception(f"Error during chat completion: {str(e)}")`
Reraise(e) == [kind |-> "Exception", msg |-> <<"Error during chat completion: ">> \o e.reply]

\* variant: a request that fails is sent a second time
CreateCallsWithRetry(request, transport) ==
    IF transport.raises THEN <<request, request>> ELSE <<request>>

\* the calls of client.chat.completions.create made for one request
CreateCalls(request, transport) == <<request>>

\* variant: the messages are formatted before the client is looked at
ChatCompletionFormattingFirst(self, messages, transport, files) ==
    LET f == _format_messages_for_openai(messages, self.ai_platform, files)
    IN  IF f.raised # "" THEN
            [raised |-> f.raised, msg |-> f.msg, sent |-> <<>>, response |-> <<>>]
        ELSE IF self.client = NoClient THEN
            [raised |-> "RuntimeError",
             msg |-> <<"GenAI client not initialized. Call initialize_genai() first.">>,
             sent |-> <<>>, response |-> <<>>]
        ELSE LET request == [model |-> self.ai_platform.model, messages |-> f.value]
             IN  IF transport.raises
                 THEN [raised |-> Reraise(transport).kind, msg |-> Reraise(transport).msg,
                       sent |-> CreateCalls(request, transport), response |-> <<>>]
                 ELSE [raised |-> "", msg |-> <<>>,
                       sent |-> CreateCalls(request, transport), response |-> transport.reply]

\* the body of chat_completion(messages): the exception raised (if any), the
\* requests handed to the client and the response returned
ChatCompletion(self, messages, transport, files) ==
    IF self.client = NoClient THEN
        [raised |-> "RuntimeError",
         msg |-> <<"GenAI client not initialized. Call initialize_genai() first.">>,
         sent |-> <<>>, response |-> <<>>]
    ELSE LET f == _format_messages_for_openai(messages, self.ai_platform, files)
         IN  IF f.raised # "" THEN
                 [raised |-> f.raised, msg |-> f.msg, sent |-> <<>>, response |-> <<>>]
             ELSE LET request == [model |-> self.ai_platform.model, messages |-> f.value]
                  IN  IF transport.raises
                      THEN [raised |-> Reraise(transport).kind, msg |-> Reraise(transport).msg,
                            sent |-> CreateCalls(request, transport), response |-> <<>>]
                      ELSE [raised |-> "", msg |-> <<>>,
                            sent |-> CreateCalls(request, transport), response |-> transport.reply]

\* the session as its methods see it
Self == [client |-> client, ai_platform |-> ai_platform]

\* the effect of chat_completion(messages) on outcome, message, response and sent
ChatCompletionEffect(messages, transport) ==
    \E r \in {ChatCompletion(Self, messages, transport, existing)} :
        /\ outcome' = IF r.raised = "" THEN "returned" ELSE r.raised
        /\ message' = r.msg
        /\ sent' = r.sent
        /\ response' = r.response

\* the body of generate_ai_response(instructions, image_paths): as
\* ChatCompletion, with the prompt that was assembled
GenerateAiResponse(self, instructions, image_paths, transport, files) ==
    LET p == _prepare_prompt(AUTOMATOR_INSTRUCTION, instructions, image_paths,
                             self.ai_platform.supports_vision, files)
    IN  IF p.raised # "" THEN
            [raised |-> p.raised, msg |-> p.msg, sent |-> <<>>, response |-> <<>>, prompt |-> p.value]
        ELSE LET r == ChatCompletion(self, p.value, transport, files)
             IN  [raised |-> r.raised, msg |-> r.msg, sent |-> r.sent, response |-> r.response,
                  prompt |-> p.value]

\* GenAI.chat_completion(messages)
chat_completion(messages, transport) ==
    /\ pc' = "chat_completion"
    /\ ChatCompletionEffect(messages, transport)
    /\ prompt' = <<>>
    /\ args' = [messages |-> messages, transport |-> transport]
    /\ UNCHANGED <<stub, parsed, ai_platform, client, existing, attachVars, libraryVars, threadVars>>

\* GenAI.generate_ai_response(instructions, image_paths)
generate_ai_response(instructions, image_paths, transport) ==
    \E r \in {GenerateAiResponse(Self, instructions, image_paths, transport, existing)} :
        /\ pc' = "generate_ai_response"
        /\ prompt' = r.prompt
        /\ args' = [instructions |-> instructions, image_paths |-> image_paths, transport |-> transport]
        /\ outcome' = IF r.raised = "" THEN "returned" ELSE r.raised
        /\ message' = r.msg
        /\ sent' = r.sent
        /\ response' = r.response
        /\ UNCHANGED <<stub, parsed, ai_platform, client, existing, attachVars, libraryVars, threadVars>>

NextSession ==
    \/ \E arg \in PlatformArgs \cup {NoPlatformArg} : initialize_genai(arg)
    \/ \E i \in Instructions, ps \in PathSeqs(ImagePaths) : PreparePrompt(i, ps)
    \/ \E i \in Instructions, ps \in {<<>>, <<ShotPng>>}, as \in PathSeqs(AttachmentPaths) \ {<<>>} :
           PreparePromptWithAttachments(i, ps, as)
    \/ \E m \in CustomMessages, t \in Transports : chat_completion(m, t)
    \/ \E i \in Instructions, ps \in PathSeqs(ImagePaths), t \in Transports :
           generate_ai_response(i, ps, t)

SpecSession == InitSession /\ [][NextSession]_vars

----------------------------------------------------------------------------
(* Library specification: an AIVision object after construction, and one
   keyword run on it *)

VERIFICATION_PASSED == <<"V","e","r","i","f","i","c","a","t","i","o","n"," ",
                         "p","a","s","s","e","d",":","\n">>

\* the instructions built into verify_screenshot_matches_look_and_feel_template
LOOK_AND_FEEL_INSTRUCTIONS ==
    <<"First image is showing actual application view.\nSecond image is reference design template. \n...">>

\* the body of _assert_result(response): the pair extracted, the
\* AssertionError raised (if any) and the records logged
AssertResult(resp) ==
    LET res == extract_result_and_explanation_from_response(resp)
    IN  IF ResultIsPass(res[1])
        THEN [raised |-> "", msg |-> <<>>, parsed |-> res,
              log |-> <<[level |-> "info", msg |-> VERIFICATION_PASSED \o res[2]]>>]
        ELSE [raised |-> "AssertionError", msg |-> VERIFICATION_FAILED \o res[2], parsed |-> res,
              log |-> <<>>]

\* screenshot_paths as the keyword is given it: one path (a str) or a list of paths
OnePath(path) == [is_str |-> TRUE, path |-> path, paths |-> <<>>]
PathList(paths) == [is_str |-> FALSE, path |-> NoImagePath, paths |-> paths]

\* `[screenshot_paths] if isinstance(screenshot_paths, str) else screenshot_paths`
AsList(screenshot_paths) ==
    IF screenshot_paths.is_str THEN <<screenshot_paths.path>> ELSE screenshot_paths.paths

\* open_image, combine_images_side_by_side and save_image as
\* combine_images_on_paths_side_by_side runs them: an image that cannot be
\* opened or a combined image that cannot be saved raises AssertionError
combine_images_on_paths_side_by_side(image_path1, image_path2, files, save_fails) ==
    IF image_path1 \notin files THEN
        Raised("AssertionError", <<"Could not open image on provided path:\n", "FileNotFoundError", ": ", image_path1.stem>>)
    ELSE IF image_path2 \notin files THEN
        Raised("AssertionError", <<"Could not open image on provided path:\n", "FileNotFoundError", ": ", image_path2.stem>>)
    ELSE IF save_fails THEN
        Raised("AssertionError", <<"Could not save image:\n", "OSError", ": ", "No space left on device">>)
    ELSE Returned(<<>>)

\* variant: an error of the combine step is not caught
CombineStepUncaught(create_combined_image, screenshot_path, template_path, files, save_fails) ==
    IF ~create_combined_image THEN [raised |-> "", msg |-> <<>>, combined |-> <<>>, log |-> <<>>]
    ELSE LET c == combine_images_on_paths_side_by_side(screenshot_path, template_path, files, save_fails)
         IN  [raised |-> c.raised, msg |-> c.msg,
              combined |-> <<[image_path1 |-> screenshot_path, image_path2 |-> template_path,
                              watermark1 |-> "Actual", watermark2 |-> "Expected", save |-> TRUE]>>,
              log |-> <<>>]

\* `if create_combined_image: try: combine... except Exception as e: logger.warn(...)`
CombineStep(create_combined_image, screenshot_path, template_path, files, save_fails) ==
    IF ~create_combined_image THEN [raised |-> "", msg |-> <<>>, combined |-> <<>>, log |-> <<>>]
    ELSE LET c == combine_images_on_paths_side_by_side(screenshot_path, template_path, files, save_fails)
         IN  [raised |-> "", msg |-> <<>>,
              combined |-> <<[image_path1 |-> screenshot_path, image_path2 |-> template_path,
                              watermark1 |-> "Actual", watermark2 |-> "Expected", save |-> TRUE]>>,
              log |-> IF c.raised # ""
                      THEN <<[level |-> "warn", msg |-> <<"Could not create combined image: ">> \o c.msg]>>
                      ELSE <<>>]

\* what the caller of a keyword writes after "Verify that"
KeywordInstructions == {<<"logo is green">>, <<"Compare these images">>}

\* override_instructions: None, the empty string, or a text
Overrides == {None, <<>>, <<"Custom instructions">>}

KeywordImages == {ShotPng, TemplateJpg}

KeywordReplies ==
    Replies \cup
    {RESULT_MARKER \o <<" ">> \o FAIL_TOKEN \o <<"\n">> \o EXPLANATION_MARKER \o <<" ">> \o <<"n","o">>,
     <<"I"," ","c","a","n","n","o","t"," ","t","e","l","l">>}

KeywordTransports ==
    {[raises |-> FALSE, kind |-> "", reply |-> r] : r \in KeywordReplies}
    \cup {t \in Transports : t.raises}

\* AIVision.__init__ with its defaults (platform Ollama), initialize as given
InitLibrary ==
    /\ \E initialize \in BOOLEAN :
        LET c == [platform |-> Ollama, base_url |-> NoneStr, api_key |-> NoneStr,
                  image_detail |-> NoneStr, initialize |-> initialize]
        IN  /\ ai_platform = ConstructionPlatform(c)
            /\ client = IF initialize
                        THEN OpenAI(ConstructionPlatform(c).base_url,
                                    OrElse(ConstructionPlatform(c).api_key, "default"))
                        ELSE NoClient
    /\ existing \in SUBSET KeywordImages
    /\ pc = "start"
    /\ response = <<>>
    /\ stub = NoStub
    /\ parsed = <<>>
    /\ outcome = "none"
    /\ message = <<>>
    /\ prompt = <<>>
    /\ sent = <<>>
    /\ args = NoArgs
    /\ NoAttachment
    /\ NoKeyword
    /\ NoThreads

\* the call of genai.generate_ai_response a keyword makes, followed by
\* logger.debug (verify_that only) and _assert_result
AskAndAssert(call, transport, debug) ==
    \E r \in {GenerateAiResponse(Self, call.instructions, call.image_paths, transport, existing)} :
        /\ calls' = <<call>>
        /\ prompt' = r.prompt
        /\ sent' = r.sent
        /\ response' = r.response
        /\ IF r.raised # "" THEN
               /\ outcome' = r.raised
               /\ message' = r.msg
               /\ parsed' = <<>>
               /\ log' = log
           ELSE \E a \in {AssertResult(r.response)} :
               /\ outcome' = IF a.raised = "" THEN "passed" ELSE a.raised
               /\ message' = a.msg
               /\ parsed' = a.parsed
               /\ log' = log
                         \o (IF debug THEN <<[level |-> "debug", msg |-> r.response]>> ELSE <<>>)
                         \o a.log

\* AIVision.verify_that(screenshot_paths, instructions)
verify_that(screenshot_paths, instructions, transport) ==
    /\ pc = "start"
    /\ pc' = "verify_that"
    /\ args' = [screenshot_paths |-> screenshot_paths, instructions |-> instructions,
                transport |-> transport]
    /\ combined' = <<>>
    /\ AskAndAssert([instructions |-> <<"Verify that: ">> \o instructions,
                     image_paths |-> AsList(screenshot_paths)],
                    transport, TRUE)
    /\ UNCHANGED <<stub, ai_platform, client, existing, attachVars, threadVars>>

\* AIVision.verify_screenshot_matches_look_and_feel_template(screenshot_path,
\* template_path, override_instructions, create_combined_image)
verify_screenshot_matches_look_and_feel_template(screenshot_path, template_path, override_instructions, create_combined_image, save_fails, transport) ==
    /\ pc = "start"
    /\ pc' = "verify_screenshot_matches_look_and_feel_template"
    /\ args' = [screenshot_path |-> screenshot_path, template_path |-> template_path,
                override_instructions |-> override_instructions,
                create_combined_image |-> create_combined_image,
                save_fails |-> save_fails, transport |-> transport]
    /\ \E c \in {CombineStep(create_combined_image, screenshot_path, template_path, existing, save_fails)} :
        /\ combined' = c.combined
        /\ IF c.raised # "" THEN
               /\ outcome' = c.raised
               /\ message' = c.msg
               /\ log' = c.log
               /\ calls' = <<>>
               /\ UNCHANGED <<response, parsed, prompt, sent>>
           ELSE
               \* the log of the combine step comes first
               /\ \E instructions \in {IF override_instructions # None /\ override_instructions # <<>>
                                       THEN override_instructions
                                       ELSE LOOK_AND_FEEL_INSTRUCTIONS} :
                   \E r \in {GenerateAiResponse(Self, instructions, <<screenshot_path, template_path>>,
                                                transport, existing)} :
                       /\ calls' = <<[instructions |-> instructions,
                                      image_paths |-> <<screenshot_path, template_path>>]>>
                       /\ prompt' = r.prompt
                       /\ sent' = r.sent
                       /\ response' = r.response
                       /\ IF r.raised # "" THEN
                              /\ outcome' = r.raised
                              /\ message' = r.msg
                              /\ parsed' = <<>>
                              /\ log' = c.log
                          ELSE \E a \in {AssertResult(r.response)} :
                              /\ outcome' = IF a.raised = "" THEN "passed" ELSE a.raised
                              /\ message' = a.msg
                              /\ parsed' = a.parsed
                              /\ log' = c.log \o a.log
    /\ UNCHANGED <<stub, ai_platform, client, existing, attachVars, threadVars>>

NextLibrary ==
    \/ \E p \in KeywordImages, i \in KeywordInstructions, t \in KeywordTransports :
           verify_that(OnePath(p), i, t)
    \/ \E ps \in PathSeqs(KeywordImages), i \in KeywordInstructions, t \in KeywordTransports :
           verify_that(PathList(ps), i, t)
    \/ \E s \in KeywordImages, t \in KeywordImages, o \in Overrides, c \in BOOLEAN,
          f \in BOOLEAN, tr \in KeywordTransports :
           verify_screenshot_matches_look_and_feel_template(s, t, o, c, f, tr)

SpecLibrary == InitLibrary /\ [][NextLibrary]_vars

----------------------------------------------------------------------------
(* Properties of the parser and of the result assertion *)

\* m occurs in s at index i
OccursAt(s, m, i) ==
    /\ i >= 1
    /\ i + Len(m) - 1 <= Len(s)
    /\ \A k \in 1..Len(m) : s[i + k - 1] = m[k]

Contains(s, m) == \E i \in 1..Len(s) : OccursAt(s, m, i)

\* i is the index of the first occurrence of m in s that starts at or after from
FirstAtOrAfter(s, m, from, i) ==
    /\ i >= from
    /\ OccursAt(s, m, i)
    /\ \A k \in from..(i - 1) : ~OccursAt(s, m, k)

\* a and b are equal up to the case of ASCII letters
EqualIgnoringCase(a, b) ==
    /\ Len(a) = Len(b)
    /\ \A i \in 1..Len(a) :
          \/ a[i] = b[i]
          \/ \E k \in 1..26 : {a[i], b[i]} = {UpperCase[k], LowerCase[k]}

ParserRan == pc \in {"extract", "assert"} /\ stub = NoStub

\* C1: a response without the marker RESULT: parses to ("fail", the whole raw
\* text), and _assert_result raises the verification failure with that text;
\* it is never reported as a pass.
C1_FailClosed ==
    (ParserRan /\ ~Contains(response, RESULT_MARKER)) =>
        /\ parsed = <<FAIL_TOKEN, response>>
        /\ pc = "assert" =>
              /\ outcome = "AssertionError"
              /\ message = VERIFICATION_FAILED \o response

\* C1 witness: a response that is only the word "pass", with no marker, was asserted and failed
C1_Witness ==
    /\ pc = "assert" /\ stub = NoStub
    /\ response = PASS_TOKEN
    /\ outcome = "AssertionError"

\* C2: _assert_result passes exactly when the extracted token equals "pass"
\* up to case; for any other token (empty and None included) it raises
\* AssertionError with message "Verification failed:\n" + explanation.
C2_PassIffPassToken ==
    pc = "assert" =>
        /\ outcome \in {"passed", "AssertionError"}
        /\ outcome = "passed" <=> (parsed[1] # None /\ EqualIgnoringCase(parsed[1], PASS_TOKEN))
        /\ outcome = "AssertionError" => message = VERIFICATION_FAILED \o parsed[2]

\* C2 witness: the token "PASS" in upper case was asserted and passed
C2_Witness ==
    /\ pc = "assert"
    /\ parsed[1] = <<"P","A","S","S">>
    /\ outcome = "passed"

\* C3: when EXPLANATION: follows the first RESULT:, the token is the trimmed
\* text between the first RESULT: and the first EXPLANATION: after it, and the
\* explanation is the trimmed rest, later markers included.
C3_SplitAtFirstMarkers ==
    ParserRan =>
        \A i, j \in 1..Len(response) :
            ( /\ FirstAtOrAfter(response, RESULT_MARKER, 1, i)
              /\ FirstAtOrAfter(response, EXPLANATION_MARKER, i + Len(RESULT_MARKER), j) )
            => parsed = << Strip(SubSeq(response, i + Len(RESULT_MARKER), j - 1)),
                           Strip(SubSeq(response, j + Len(EXPLANATION_MARKER), Len(response))) >>

\* C3 witness: the explanation of a parsed response still holds a second EXPLANATION: marker
C3_Witness ==
    /\ pc = "extract"
    /\ parsed[1] = PASS_TOKEN
    /\ parsed[2] # response
    /\ Contains(parsed[2], EXPLANATION_MARKER)

\* C4: with RESULT: but no EXPLANATION: after it, the token is the trimmed
\* text after the first RESULT: and the explanation is the whole raw response.
C4_NoExplanationMarker ==
    ParserRan =>
        \A i \in 1..Len(response) :
            ( /\ FirstAtOrAfter(response, RESULT_MARKER, 1, i)
              /\ \A j \in 1..Len(response) :
                    ~FirstAtOrAfter(response, EXPLANATION_MARKER, i + Len(RESULT_MARKER), j) )
            => parsed = << Strip(SubSeq(response, i + Len(RESULT_MARKER), Len(response))),
                           response >>

\* C4 witness: "RESULT: PASS" passed with the raw response as explanation
C4_Witness ==
    /\ pc = "assert" /\ stub = NoStub
    /\ response = RESULT_MARKER \o <<" ">> \o <<"P","A","S","S">>
    /\ parsed = << <<"P","A","S","S">>, response >>
    /\ outcome = "passed"

----------------------------------------------------------------------------
(* Properties of prompt assembly and message formatting *)

\* the elements of a sequence
Range(seq) == {seq[i] : i \in 1..Len(seq)}

PreparedPrompt == pc = "_prepare_prompt" /\ args.attachment_paths = <<>>

\* C5: without vision support, _prepare_prompt still fails with a not-found
\* error naming the path when a given image path is not a file, and succeeds
\* with no image block when all are files.
C5_ValidatesWithoutVision ==
    (PreparedPrompt /\ ~ai_platform.supports_vision) =>
        IF \E p \in Range(args.image_paths) : p \notin existing
        THEN /\ outcome = "FileNotFoundError"
             /\ \E p \in Range(args.image_paths) : p \notin existing /\ p \in Range(message)
        ELSE /\ outcome = "returned"
             /\ \A b \in Range(prompt[1].content) : b.type # "image"

\* the formatted messages of the request that was sent
SentMessages == sent[1].messages

SentARequest == pc \in {"chat_completion", "generate_ai_response"} /\ sent # <<>>

\* the messages the formatter was given
FormatterInput == IF pc = "chat_completion" THEN args.messages ELSE prompt

\* the text blocks of a content, rendered, in their order
RECURSIVE TextEntries(_)
TextEntries(content_items) ==
    IF content_items = <<>> THEN <<>>
    ELSE IF Head(content_items).type = "text"
         THEN <<[type |-> "text", text |-> Head(content_items).text]>> \o TextEntries(Tail(content_items))
         ELSE TextEntries(Tail(content_items))

\* C6: a request holds an image_url entry only if the platform supports
\* vision; without vision every image block is left out, nothing stands in
\* for it, and the text blocks are all kept in order.
C6_ImagesOnlyWithVision ==
    SentARequest =>
        /\ Len(SentMessages) = Len(FormatterInput)
        /\ \A m \in 1..Len(SentMessages) :
            /\ (\E e \in Range(SentMessages[m].content) : e.type = "image_url")
                   => ai_platform.supports_vision
            /\ ~ai_platform.supports_vision
                   => SentMessages[m].content = TextEntries(FormatterInput[m].content)

\* C6 witness: a request was sent without vision support for messages that held image blocks
C6_Witness ==
    /\ pc = "chat_completion" /\ sent # <<>>
    /\ ~ai_platform.supports_vision
    /\ \E m \in 1..Len(args.messages) :
        /\ \E b \in Range(args.messages[m].content) : b.type = "image"
        /\ Len(SentMessages[m].content) = 2

\* C7: _prepare_prompt returns one user message: the system-instruction text
\* block, the instruction text block, then with vision one image block per
\* given path, in the order given.
C7_PromptOrder ==
    (PreparedPrompt /\ outcome = "returned") =>
        /\ Len(prompt) = 1
        /\ prompt[1].role = "user"
        /\ Len(prompt[1].content) >= 2
        /\ prompt[1].content[1] = TextBlock(AUTOMATOR_INSTRUCTION)
        /\ prompt[1].content[2] = TextBlock(args.instruction)
        /\ ai_platform.supports_vision =>
            /\ Len(prompt[1].content) = 2 + Len(args.image_paths)
            /\ \A i \in 1..Len(args.image_paths) :
                  prompt[1].content[2 + i] = ImageBlock(args.image_paths[i])

\* C7 witness: a prompt was returned for two different image paths with vision support
C7_Witness ==
    /\ PreparedPrompt /\ outcome = "returned"
    /\ ai_platform.supports_vision
    /\ args.image_paths = <<TemplateJpg, ShotPng>>
    /\ Len(prompt[1].content) = 4

\* C8: _prepare_prompt accepts attachment paths and appends a text block
\* starting with the ATTACHMENT: header for each attachment.
C8_AttachmentsInPrompt ==
    (pc = "_prepare_prompt" /\ args.attachment_paths # <<>>) =>
        /\ outcome = "returned"
        /\ \E b \in Range(prompt[1].content) :
              b.type = "text" /\ \E i \in 1..Len(b.text) : b.text[i] = "ATTACHMENT: "

----------------------------------------------------------------------------
(* Attachment processing: AttachmentProcessor *)

Take(seq, n) == SubSeq(seq, 1, Min(n, Len(seq)))

\* str(n) of a natural number
RECURSIVE Decimal(_)
Decimal(n) == IF n < 10 THEN <<Digits[n + 1]>> ELSE Decimal(n \div 10) \o <<Digits[(n % 10) + 1]>>

\* the extension -> MIME table of _guess_mime_type
MIME_TYPES == <<
    <<<<".","t","x","t">>, "text/plain">>,
    <<<<".","l","o","g">>, "text/plain">>,
    <<<<".","p","d","f">>, "application/pdf">>,
    <<<<".","m","d">>, "text/markdown">>,
    <<<<".","j","s","o","n">>, "application/json">>,
    <<<<".","y","a","m","l">>, "application/x-yaml">>,
    <<<<".","y","m","l">>, "application/x-yaml">>,
    <<<<".","x","m","l">>, "application/xml">>,
    <<<<".","c","s","v">>, "text/csv">>,
    <<<<".","p","y">>, "text/x-python">>,
    <<<<".","j","s">>, "text/javascript">>,
    <<<<".","t","s">>, "text/typescript">>,
    <<<<".","j","a","v","a">>, "text/x-java-source">>,
    <<<<".","c">>, "text/x-c">>,
    <<<<".","h">>, "text/x-c">>,
    <<<<".","c","p","p">>, "text/x-c">>,
    <<<<".","h","p","p">>, "text/x-c">>,
    <<<<".","r","s">>, "text/x-rust">>,
    <<<<".","g","o">>, "text/x-go">>,
    <<<<".","r","b">>, "text/x-ruby">>,
    <<<<".","p","h","p">>, "text/x-php">>,
    <<<<".","s","h">>, "text/x-shellscript">> >>

PdfExt == <<".","p","d","f">>

\* variant: an extension missing from the table is reported as binary data
_guess_mime_type_octet_stream(ext) ==
    IF \E i \in 1..Len(MIME_TYPES) : MIME_TYPES[i][1] = ext
    THEN MIME_TYPES[CHOOSE i \in 1..Len(MIME_TYPES) : MIME_TYPES[i][1] = ext][2]
    ELSE "application/octet-stream"

\* mime_types.get(ext, "text/plain")
_guess_mime_type(ext) ==
    IF \E i \in 1..Len(MIME_TYPES) : MIME_TYPES[i][1] = ext
    THEN MIME_TYPES[CHOOSE i \in 1..Len(MIME_TYPES) : MIME_TYPES[i][1] = ext][2]
    ELSE "text/plain"

\* variant: the header is not closed by ")\n"
_format_attachment_header_open(filename, mime_type, size, kind, truncated) ==
    <<"ATTACHMENT: ">> \o filename \o <<" (mime: ", mime_type, ", size: ">> \o Decimal(size)
        \o <<" bytes, format: ", kind>>
        \o (IF truncated THEN <<", truncated">> ELSE <<>>)

_format_attachment_header(filename, mime_type, size, kind, truncated) ==
    <<"ATTACHMENT: ">> \o filename \o <<" (mime: ", mime_type, ", size: ">> \o Decimal(size)
        \o <<" bytes, format: ", kind>>
        \o (IF truncated THEN <<", truncated">> ELSE <<>>)
        \o <<")\n">>

\* variant: only max_bytes bytes are read, so a longer file is never noticed
_read_file_bytes_exact(data, max_bytes) ==
    LET read == Take(data, max_bytes)
        truncated == Len(read) > max_bytes
    IN  [data |-> IF truncated THEN Take(read, max_bytes) ELSE read, truncated |-> truncated]

\* file_handle.read(max_bytes + 1), then the cut to max_bytes
_read_file_bytes(data, max_bytes) ==
    LET read == Take(data, max_bytes + 1)
        truncated == Len(read) > max_bytes
    IN  [data |-> IF truncated THEN Take(read, max_bytes) ELSE read, truncated |-> truncated]

REPLACEMENT == "U+FFFD"

\* the character of a code point (those the inputs can produce)
Chr(cp) ==
    IF cp = 32 THEN " "
    ELSE IF cp = 65 THEN "A"
    ELSE IF cp = 233 THEN "U+00E9"
    ELSE "U+0000"

\* bytes.decode("utf-8", errors="replace") for one-byte and two-byte sequences:
\* every byte that does not start or continue a well-formed sequence becomes U+FFFD
RECURSIVE Utf8DecodeReplace(_)
Utf8DecodeReplace(data) ==
    IF data = <<>> THEN <<>>
    ELSE IF data[1] < 128 THEN <<Chr(data[1])>> \o Utf8DecodeReplace(Tail(data))
    ELSE IF data[1] \in 194..223 /\ Len(data) >= 2 /\ data[2] \in 128..191
         THEN <<Chr((data[1] - 192) * 64 + (data[2] - 128))>> \o Utf8DecodeReplace(SubSeq(data, 3, Len(data)))
    ELSE <<REPLACEMENT>> \o Utf8DecodeReplace(Tail(data))

_read_text_file(data, max_bytes) ==
    LET r == _read_file_bytes(data, max_bytes)
    IN  [text |-> Utf8DecodeReplace(r.data), truncated |-> r.truncated]

\* variant: the whole file is encoded, the byte budget only sets the flag
_read_binary_base64_whole(data, max_bytes) ==
    LET r == _read_file_bytes(data, max_bytes)
    IN  [text |-> b64encode(data), truncated |-> r.truncated]

_read_binary_base64(data, max_bytes) ==
    LET r == _read_file_bytes(data, max_bytes)
    IN  [text |-> b64encode(r.data), truncated |-> r.truncated]

\* "\n".join(chunks)
RECURSIVE JoinLines(_)
JoinLines(chunks) ==
    IF chunks = <<>> THEN <<>>
    ELSE IF Len(chunks) = 1 THEN chunks[1]
    ELSE chunks[1] \o <<"\n">> \o JoinLines(Tail(chunks))

\* the page loop of _read_pdf_text from page i on: the chunks collected, or
\* failed when page.get_text() raises on a page that is read
RECURSIVE ReadPages(_, _, _, _, _)
ReadPages(doc, i, text_chunks, total_chars, max_chars) ==
    IF i > Len(doc.pages) THEN [failed |-> FALSE, chunks |-> text_chunks]
    ELSE IF doc.text_fails_at = i THEN [failed |-> TRUE, chunks |-> <<>>]
    ELSE IF doc.pages[i] = <<>> THEN ReadPages(doc, i + 1, text_chunks, total_chars, max_chars)
    ELSE IF total_chars + Len(doc.pages[i]) >= max_chars
         THEN [failed |-> FALSE, chunks |-> Append(text_chunks, doc.pages[i])]
    ELSE ReadPages(doc, i + 1, Append(text_chunks, doc.pages[i]),
                   total_chars + Len(doc.pages[i]), max_chars)

\* variant: the extraction is not wrapped in try/except, so an error of
\* fitz.open or page.get_text leaves _read_pdf_text as an exception
_read_pdf_text_uncaught(doc, max_chars) ==
    IF ~doc.fitz THEN [text |-> <<>>, truncated |-> FALSE, ok |-> FALSE, raised |-> ""]
    ELSE IF ~doc.opens THEN [text |-> <<>>, truncated |-> FALSE, ok |-> FALSE, raised |-> "RuntimeError"]
    ELSE LET r == ReadPages(doc, 1, <<>>, 0, max_chars)
             text == JoinLines(r.chunks)
         IN  IF r.failed THEN [text |-> <<>>, truncated |-> FALSE, ok |-> FALSE, raised |-> "RuntimeError"]
             ELSE [text |-> IF Len(text) > max_chars THEN Take(text, max_chars) ELSE text,
                   truncated |-> Len(text) > max_chars,
                   ok |-> TRUE,
                   raised |-> ""]

\* (text, truncated, ok); raised names an exception that leaves the method (none does)
_read_pdf_text(doc, max_chars) ==
    IF ~doc.fitz \/ ~doc.opens THEN [text |-> <<>>, truncated |-> FALSE, ok |-> FALSE, raised |-> ""]
    ELSE LET r == ReadPages(doc, 1, <<>>, 0, max_chars)
             text == JoinLines(r.chunks)
         IN  IF r.failed THEN [text |-> <<>>, truncated |-> FALSE, ok |-> FALSE, raised |-> ""]
             ELSE [text |-> IF Len(text) > max_chars THEN Take(text, max_chars) ELSE text,
                   truncated |-> Len(text) > max_chars,
                   ok |-> TRUE,
                   raised |-> ""]

\* os.path.join(temp_dir, f"pdf_page_{index + 1}.png")
PagePath(temp_dir, number) ==
    [stem |-> "pdf_page_", ext |-> PngExt, dir |-> temp_dir, number |-> number]

\* variant: the pages rendered before a failure are returned
_render_pdf_to_images_partial(doc, pdf_max_pages, temp_dir) ==
    IF ~doc.fitz \/ ~doc.opens THEN <<>>
    ELSE LET page_count == Min(Len(doc.pages), pdf_max_pages)
             rendered == IF doc.render_fails_at \in 1..page_count
                         THEN doc.render_fails_at - 1
                         ELSE page_count
         IN  [index \in 1..rendered |-> PagePath(temp_dir, index)]

\* variant: every page is rendered, pdf_max_pages is ignored
_render_pdf_to_images_all_pages(doc, pdf_max_pages, temp_dir) ==
    IF ~doc.fitz \/ ~doc.opens THEN <<>>
    ELSE LET page_count == Len(doc.pages)
         IN  IF doc.render_fails_at \in 1..page_count THEN <<>>
             ELSE [index \in 1..page_count |-> PagePath(temp_dir, index)]

\* the image paths returned by _render_pdf_to_images, rendering into temp_dir
_render_pdf_to_images(doc, pdf_max_pages, temp_dir) ==
    IF ~doc.fitz \/ ~doc.opens THEN <<>>
    ELSE LET page_count == Min(Len(doc.pages), pdf_max_pages)
         IN  IF doc.render_fails_at \in 1..page_count THEN <<>>
             ELSE [index \in 1..page_count |-> PagePath(temp_dir, index)]

\* os.path.getsize(attachment_path)
getsize(f) == Len(f.bytes)

\* variant: any extracted text counts, also text of whitespace only
UsesPdfTextUnstripped(t) == t.ok /\ t.text # <<>>

\* `if ok and text.strip()`
UsesPdfText(t) == t.ok /\ Strip(t.text) # <<>>

\* variant: every call gets the same directory
mkdtemp_shared(made) == 1

\* tempfile.mkdtemp(prefix="aivision_pdf_"): a directory no earlier call
\* made, named here by the number of directories made so far
mkdtemp(made) == made + 1

\* the body of prepare_attachment_content once size is known, rendering into
\* temp_dir: the items returned, the locals of the branch taken, the number of
\* temporary directories made, and the exception that leaves the call (if any)
PrepareIn(proc, f, doc, size, temp_dir) ==
    LET filename  == <<f.path.stem>> \o f.path.ext
        ext       == Lower(f.path.ext)
        mime_type == _guess_mime_type(ext)
        Result(kind, truncated, body, images, dirs) ==
            LET header == _format_attachment_header(filename, mime_type, size, kind, truncated)
            IN  [raised |-> "",
                 items |-> <<TextBlock(header \o body)>> \o [i \in 1..Len(images) |-> ImageBlock(images[i])],
                 locals |-> [size |-> size, mime_type |-> mime_type, kind |-> kind,
                             truncated |-> truncated, header |-> header, body |-> body],
                 dirs |-> dirs]
    IN  IF ext = PdfExt THEN
            LET t == _read_pdf_text(doc, proc.max_chars)
            IN  IF t.raised # ""
                THEN [raised |-> t.raised, items |-> <<>>, locals |-> [none |-> TRUE], dirs |-> 0]
                ELSE IF UsesPdfText(t)
                THEN Result("pdf text", t.truncated, Strip(t.text), <<>>, 0)
                ELSE LET image_paths == IF proc.supports_vision
                                        THEN _render_pdf_to_images(doc, proc.pdf_max_pages, temp_dir)
                                        ELSE <<>>
                         dirs == IF proc.supports_vision THEN 1 ELSE 0
                     IN  IF image_paths # <<>>
                         THEN Result("pdf images", FALSE,
                                     <<"[PDF rendered to ">> \o Decimal(Len(image_paths)) \o <<" images]">>,
                                     image_paths, dirs)
                         ELSE LET b == _read_binary_base64(f.bytes, proc.max_bytes)
                              IN  Result("base64", b.truncated, b.text, <<>>, dirs)
        ELSE LET r == _read_text_file(f.bytes, proc.max_bytes)
             IN  Result("text", r.truncated, r.text, <<>>, 0)

\* the body of prepare_attachment_content once size is known
PrepareWithSize(proc, f, doc, size) ==
    PrepareIn(proc, f, doc, size, mkdtemp(temp_dirs))

\* variant: the header reports the number of bytes kept under the byte budget
PrepareResultKeptSize(proc, f, doc) ==
    PrepareWithSize(proc, f, doc, Min(getsize(f), proc.max_bytes))

\* prepare_attachment_content for a file that exists
PrepareResult(proc, f, doc) ==
    PrepareWithSize(proc, f, doc, getsize(f))

----------------------------------------------------------------------------
(* Attachment specification: Init draws the processor and the file, the
   action applies prepare_attachment_content to it. *)

ByteValues == {65, 32, 195, 169, 255}

ByteSeqs == UNION {[1..n -> ByteValues] : n \in 0..MaxFileLen}

PageChars == {"a", " "}

PageTexts == UNION {[1..n -> PageChars] : n \in 0..MaxPageLen}

PageSeqs == UNION {[1..n -> PageTexts] : n \in 0..MaxPdfPages}

TextExts == {<<".","t","x","t">>, <<".","J","S","O","N">>, <<".","b","i","n">>, <<>>}

PdfBytes == <<37, 80, 68>>

\* AttachmentProcessor.__init__
AttachmentProcessor(supports_vision, max_bytes, max_chars, pdf_max_pages) ==
    [supports_vision |-> supports_vision, max_bytes |-> max_bytes,
     max_chars |-> max_chars, pdf_max_pages |-> pdf_max_pages]

NoDocument == [fitz |-> FALSE, opens |-> FALSE, pages |-> <<>>, text_fails_at |-> 0, render_fails_at |-> 0]

\* a text-like attachment
InitTextFile ==
    /\ \E max_bytes \in 0..MaxBudget :
           processor = AttachmentProcessor(FALSE, max_bytes, MaxBudget, MaxBudget)
    /\ \E ext \in TextExts, data \in ByteSeqs, exists \in BOOLEAN :
           /\ exists \/ (data = <<>> /\ ext = <<".","t","x","t">>)
           /\ file = [path |-> Path("notes", ext), bytes |-> data, exists |-> exists]
    /\ pdf = NoDocument

\* a PDF attachment and what the PDF library does with it
InitPdfFile ==
    /\ \E supports_vision \in BOOLEAN, max_bytes \in {MaxBudget, MaxBudget + 1},
          max_chars \in 1..(MaxBudget + 1), pdf_max_pages \in 1..MaxBudget :
           processor = AttachmentProcessor(supports_vision, max_bytes, max_chars, pdf_max_pages)
    /\ \E ext \in {PdfExt, <<".","P","D","F">>} :
           file = [path |-> Path("report", ext), bytes |-> PdfBytes, exists |-> TRUE]
    /\ \/ pdf = NoDocument
       \/ pdf = [NoDocument EXCEPT !.fitz = TRUE]
       \/ \E pages \in PageSeqs, tf \in 0..MaxPdfPages, rf \in 0..MaxPdfPages :
           /\ tf <= Len(pages) /\ rf <= Len(pages)
           /\ pdf = [fitz |-> TRUE, opens |-> TRUE, pages |-> pages,
                     text_fails_at |-> tf, render_fails_at |-> rf]

InitAttach ==
    /\ InitTextFile \/ InitPdfFile
    /\ items = <<>>
    /\ locals = [none |-> TRUE]
    /\ temp_dirs = 0
    /\ pc = "start"
    /\ response = <<>>
    /\ stub = NoStub
    /\ parsed = <<>>
    /\ outcome = "none"
    /\ message = <<>>
    /\ ai_platform = AIPlatform(Ollama, NoneStr, "ollama", NoneStr, NoneStr)
    /\ client = NoClient
    /\ existing = {}
    /\ prompt = <<>>
    /\ sent = <<>>
    /\ args = NoArgs
    /\ NoKeyword
    /\ NoThreads

\* AttachmentProcessor.prepare_attachment_content(attachment_path)
prepare_attachment_content ==
    /\ pc = "start"
    /\ pc' = "prepare_attachment_content"
    /\ IF ~file.exists THEN
           \* os.path.getsize raises
           /\ outcome' = "FileNotFoundError"
           /\ message' = <<"No such file or directory: ", file.path>>
           /\ UNCHANGED <<items, locals, temp_dirs>>
       ELSE LET r == PrepareResult(processor, file, pdf)
            IN  /\ outcome' = IF r.raised = "" THEN "returned" ELSE r.raised
                /\ message' = <<>>
                /\ items' = r.items
                /\ locals' = r.locals
                /\ temp_dirs' = temp_dirs + r.dirs
    /\ UNCHANGED <<response, stub, parsed, sessionVars, libraryVars, threadVars, processor, file, pdf>>

NextAttach == prepare_attachment_content

SpecAttach == InitAttach /\ [][NextAttach]_vars

----------------------------------------------------------------------------
(* Thread specification: NumThreads calls on one AttachmentProcessor and one
   GenAI session, running concurrently. A step is a stretch of a call
   between two points where the interpreter may switch threads. *)

\* what a thread is asked to do
AttachmentJob(f, doc) ==
    [kind |-> "attachment", file |-> f, pdf |-> doc, instruction |-> <<>>, image_paths |-> <<>>]
PromptJob(instruction, image_paths) ==
    [kind |-> "prompt", file |-> [none |-> TRUE], pdf |-> NoDocument,
     instruction |-> instruction, image_paths |-> image_paths]

ScannedPdf(render_fails_at) ==
    [fitz |-> TRUE, opens |-> TRUE, pages |-> << <<>>, <<" ">> >>,
     text_fails_at |-> 0, render_fails_at |-> render_fails_at]

ThreadJobs ==
    {AttachmentJob([path |-> Path("notes", <<".","t","x","t">>), bytes |-> <<65>>, exists |-> TRUE],
                   NoDocument),
     AttachmentJob([path |-> Path("report", PdfExt), bytes |-> PdfBytes, exists |-> TRUE],
                   [fitz |-> TRUE, opens |-> TRUE, pages |-> << <<"a">> >>,
                    text_fails_at |-> 0, render_fails_at |-> 0]),
     AttachmentJob([path |-> Path("scan", PdfExt), bytes |-> <<37, 80>>, exists |-> TRUE],
                   ScannedPdf(0)),
     AttachmentJob([path |-> Path("torn", PdfExt), bytes |-> <<37, 80, 68, 70>>, exists |-> TRUE],
                   ScannedPdf(2)),
     PromptJob(<<"logo is green">>, <<ShotPng>>),
     PromptJob(<<"Compare these images">>, <<ShotPng, TemplateJpg>>)}

NoPdfText == [text |-> <<>>, truncated |-> FALSE, ok |-> FALSE, raised |-> ""]

\* a call that has not started: its job and its (unset) locals
NewThread(job) ==
    [pc |-> "start", job |-> job, size |-> 0, pdf_text |-> NoPdfText, temp_dir |-> 0,
     image_paths |-> <<>>, items |-> <<>>, raised |-> ""]

InitThreads ==
    /\ \E supports_vision \in BOOLEAN :
        /\ processor = AttachmentProcessor(supports_vision, MaxBudget, MaxBudget, MaxBudget)
        /\ ai_platform = IF supports_vision
                         THEN AIPlatform(Ollama, NoneStr, "ollama", NoneStr, NoneStr)
                         ELSE AIPlatform(NoPlatform, "http://custom/v1", NoneStr, "llava", NoneStr)
    /\ \E jobs \in [1..NumThreads -> ThreadJobs] :
           threads = [t \in 1..NumThreads |-> NewThread(jobs[t])]
    /\ existing = {ShotPng}
    /\ temp_dirs = 0
    /\ file = [none |-> TRUE]
    /\ pdf = [none |-> TRUE]
    /\ items = <<>>
    /\ locals = [none |-> TRUE]
    /\ pc = "start"
    /\ response = <<>>
    /\ stub = NoStub
    /\ parsed = <<>>
    /\ outcome = "none"
    /\ message = <<>>
    /\ client = NoClient
    /\ prompt = <<>>
    /\ sent = <<>>
    /\ args = NoArgs
    /\ NoKeyword

\* variant: size is kept on the processor, where every call reads and writes it
AssignSizeOnSelf(ths, t, size) ==
    [u \in DOMAIN ths |-> [ths[u] EXCEPT !.size = size]]

\* `size = os.path.getsize(attachment_path)`: a local of the call
AssignSize(ths, t, size) ==
    [ths EXCEPT ![t].size = size]

\* the blocks a call returns, built from its own locals
Blocks(th, kind, truncated, body, images) ==
    LET f == th.job.file
        header == _format_attachment_header(<<f.path.stem>> \o f.path.ext,
                                            _guess_mime_type(Lower(f.path.ext)),
                                            th.size, kind, truncated)
    IN  <<TextBlock(header \o body)>> \o [i \in 1..Len(images) |-> ImageBlock(images[i])]

ThreadFrame ==
    UNCHANGED <<parseVars, sessionVars, libraryVars, processor, file, pdf, items, locals>>

\* prepare_attachment_content, up to the extension test
Stat(t) ==
    /\ threads[t].pc = "start"
    /\ threads[t].job.kind = "attachment"
    /\ threads' = [AssignSize(threads, t, getsize(threads[t].job.file)) EXCEPT ![t].pc = "sized"]
    /\ UNCHANGED temp_dirs
    /\ ThreadFrame

\* the plain-text branch
ReadTextFile(t) ==
    /\ threads[t].pc = "sized"
    /\ Lower(threads[t].job.file.path.ext) # PdfExt
    /\ LET r == _read_text_file(threads[t].job.file.bytes, processor.max_bytes)
       IN  threads' = [threads EXCEPT ![t].pc = "done",
                                      ![t].items = Blocks(threads[t], "text", r.truncated, r.text, <<>>)]
    /\ UNCHANGED temp_dirs
    /\ ThreadFrame

\* the PDF branch up to the call of _render_pdf_to_images
ReadPdfText(t) ==
    /\ threads[t].pc = "sized"
    /\ Lower(threads[t].job.file.path.ext) = PdfExt
    /\ LET r == _read_pdf_text(threads[t].job.pdf, processor.max_chars)
       IN  threads' =
               IF UsesPdfText(r)
               THEN [threads EXCEPT ![t].pc = "done", ![t].pdf_text = r,
                                    ![t].items = Blocks(threads[t], "pdf text", r.truncated,
                                                        Strip(r.text), <<>>)]
               ELSE [threads EXCEPT ![t].pc = IF processor.supports_vision THEN "rasterize" ELSE "fallback",
                                    ![t].pdf_text = r]
    /\ UNCHANGED temp_dirs
    /\ ThreadFrame

\* _render_pdf_to_images: tempfile.mkdtemp
MakeTempDir(t) ==
    /\ threads[t].pc = "rasterize"
    /\ threads' = [threads EXCEPT ![t].pc = "render", ![t].temp_dir = mkdtemp(temp_dirs)]
    /\ temp_dirs' = temp_dirs + 1
    /\ ThreadFrame

\* _render_pdf_to_images: the rendering, and the "pdf images" branch
Render(t) ==
    /\ threads[t].pc = "render"
    /\ LET paths == _render_pdf_to_images(threads[t].job.pdf, processor.pdf_max_pages,
                                          threads[t].temp_dir)
       IN  threads' =
               IF paths # <<>>
               THEN [threads EXCEPT ![t].pc = "done", ![t].image_paths = paths,
                                    ![t].items = Blocks(threads[t], "pdf images", FALSE,
                                                        <<"[PDF rendered to ">> \o Decimal(Len(paths))
                                                            \o <<" images]">>,
                                                        paths)]
               ELSE [threads EXCEPT ![t].pc = "fallback"]
    /\ UNCHANGED temp_dirs
    /\ ThreadFrame

\* the base64 branch
ReadBase64(t) ==
    /\ threads[t].pc = "fallback"
    /\ LET b == _read_binary_base64(threads[t].job.file.bytes, processor.max_bytes)
       IN  threads' = [threads EXCEPT ![t].pc = "done",
                                      ![t].items = Blocks(threads[t], "base64", b.truncated, b.text, <<>>)]
    /\ UNCHANGED temp_dirs
    /\ ThreadFrame

\* _prepare_prompt: the two text blocks
PromptContent(t) ==
    /\ threads[t].pc = "start"
    /\ threads[t].job.kind = "prompt"
    /\ threads' = [threads EXCEPT ![t].pc = "images",
                                  ![t].items = <<TextBlock(AUTOMATOR_INSTRUCTION),
                                                 TextBlock(threads[t].job.instruction)>>]
    /\ UNCHANGED temp_dirs
    /\ ThreadFrame

\* _prepare_prompt: the loop over the images, and the return
PromptImages(t) ==
    /\ threads[t].pc = "images"
    /\ LET image_paths == threads[t].job.image_paths
           content == threads[t].items
       IN  threads' =
               IF image_paths # <<>> /\ ai_platform.supports_vision
               THEN IF FirstMissing(image_paths, existing) # 0
                    THEN [threads EXCEPT ![t].pc = "done", ![t].items = <<>>,
                                         ![t].raised = "FileNotFoundError"]
                    ELSE [threads EXCEPT ![t].pc = "done",
                                         ![t].items = <<[role |-> "user",
                                                         content |-> content \o
                                                             [i \in 1..Len(image_paths) |->
                                                                 ImageBlock(image_paths[i])]]>>]
               ELSE [threads EXCEPT ![t].pc = "done",
                                    ![t].items = <<[role |-> "user", content |-> content]>>]
    /\ UNCHANGED temp_dirs
    /\ ThreadFrame

NextThreads ==
    \E t \in 1..NumThreads :
        \/ Stat(t)
        \/ ReadTextFile(t)
        \/ ReadPdfText(t)
        \/ MakeTempDir(t)
        \/ Render(t)
        \/ ReadBase64(t)
        \/ PromptContent(t)
        \/ PromptImages(t)

SpecThreads == InitThreads /\ [][NextThreads]_vars

----------------------------------------------------------------------------
(* Properties of attachment processing *)

PreparedAttachment == pc = "prepare_attachment_content" /\ outcome = "returned"

IsPdf == Lower(file.path.ext) = PdfExt

\* the header carries the truncated marker
HeaderMarkedTruncated == \E i \in 1..Len(locals.header) : locals.header[i] = ", truncated"

\* C9: for a non-PDF attachment of L bytes the header carries the truncated
\* marker iff L > max_bytes, and the body is the lossy UTF-8 decoding of the
\* first min(L, max_bytes) bytes.
C9_TextTruncation ==
    (PreparedAttachment /\ ~IsPdf) =>
        LET L == Len(file.bytes)
            kept == Min(L, processor.max_bytes)
        IN  /\ HeaderMarkedTruncated <=> L > processor.max_bytes
            /\ locals.body = Utf8DecodeReplace([i \in 1..kept |-> file.bytes[i]])
            /\ items = <<TextBlock(locals.header \o locals.body)>>

\* C9 witness: a three-byte file cut to two bytes inside a two-byte character
C9_Witness ==
    /\ PreparedAttachment /\ ~IsPdf
    /\ file.bytes = <<65, 195, 169>>
    /\ processor.max_bytes = 2
    /\ HeaderMarkedTruncated
    /\ locals.body = <<"A", REPLACEMENT>>

\* the whole text the PDF library extracts from the document
ExtractableText == JoinLines(SelectSeq(pdf.pages, LAMBDA page_text : page_text # <<>>))

\* C10: a PDF whose extractable text is longer than max_chars yields kind
\* "pdf text" with the truncated marker and a body of exactly max_chars
\* characters.
C10_PdfTextCut ==
    ( /\ PreparedAttachment /\ IsPdf
      /\ pdf.fitz /\ pdf.opens /\ pdf.text_fails_at = 0
      /\ Len(ExtractableText) > processor.max_chars )
    => /\ locals.kind = "pdf text"
       /\ HeaderMarkedTruncated
       /\ Len(locals.body) = processor.max_chars

\* the budget that bounds the content of the kind emitted was exceeded
BudgetHit ==
    CASE locals.kind \in {"text", "base64"} -> Len(file.bytes) > processor.max_bytes
      [] locals.kind = "pdf text"           -> Len(ExtractableText) > processor.max_chars
      [] locals.kind = "pdf images"         -> Len(pdf.pages) > processor.pdf_max_pages

\* C11: whenever the content emitted was cut by the budget of its kind (bytes
\* for text and base64, characters for PDF text, pages for PDF images) the
\* header carries the truncated marker.
C11_MarkedWhenBudgetHit ==
    PreparedAttachment => (BudgetHit => HeaderMarkedTruncated)

\* the characters on the first n pages of the document
RECURSIVE CharsThrough(_)
CharsThrough(n) == IF n = 0 THEN 0 ELSE CharsThrough(n - 1) + Len(pdf.pages[n])

\* the last page text extraction asks for: the first one that fills the
\* character budget, else the last page of the document
LastPageRead ==
    IF \E n \in 1..Len(pdf.pages) : CharsThrough(n) >= processor.max_chars
    THEN CHOOSE n \in 1..Len(pdf.pages) :
             /\ CharsThrough(n) >= processor.max_chars
             /\ \A m \in 1..(n - 1) : CharsThrough(m) < processor.max_chars
    ELSE Len(pdf.pages)

\* text extraction succeeds and the text kept has a character that is not whitespace
UsableText ==
    /\ pdf.fitz /\ pdf.opens
    /\ pdf.text_fails_at \notin 1..LastPageRead
    /\ \E i \in 1..Min(Len(ExtractableText), processor.max_chars) :
           ExtractableText[i] \notin Whitespace

\* the number of pages the renderer is asked for
PagesToRender == Min(Len(pdf.pages), processor.pdf_max_pages)

\* the renderer returns at least one page image
RendererReturnsImages ==
    /\ pdf.fitz /\ pdf.opens
    /\ Len(pdf.pages) >= 1
    /\ pdf.render_fails_at \notin 1..PagesToRender

\* C12: a PDF with no usable text, on a vision platform whose renderer returns
\* images, yields kind "pdf images": first block the header (never marked
\* truncated) followed by "[PDF rendered to N images]", then one image block
\* per rendered page in page order, N <= pdf_max_pages.
C12_PdfImages ==
    (PreparedAttachment /\ IsPdf /\ ~UsableText /\ processor.supports_vision /\ RendererReturnsImages)
    => /\ locals.kind = "pdf images"
       /\ ~HeaderMarkedTruncated
       /\ PagesToRender <= processor.pdf_max_pages
       /\ Len(items) = 1 + PagesToRender
       /\ items[1] = TextBlock(locals.header \o <<"[PDF rendered to ">>
                                   \o Decimal(PagesToRender) \o <<" images]">>)
       /\ \A i \in 1..PagesToRender : items[1 + i] = ImageBlock(PagePath(temp_dirs, i))

\* C12 witness: a scanned two-page PDF rendered under a one-page cap
C12_Witness ==
    /\ PreparedAttachment /\ IsPdf /\ processor.supports_vision
    /\ pdf.pages = << <<>>, <<>> >> /\ pdf.opens /\ pdf.render_fails_at = 0
    /\ processor.pdf_max_pages = 1
    /\ locals.kind = "pdf images"
    /\ Len(items) = 2

\* C13: a PDF with no usable text and no page images (no vision, or the
\* renderer gave nothing) yields kind "base64": one block, header plus the
\* base64 of the first min(L, max_bytes) bytes, marked truncated iff
\* L > max_bytes.
C13_Base64Fallback ==
    (PreparedAttachment /\ IsPdf /\ ~UsableText
        /\ (~processor.supports_vision \/ ~RendererReturnsImages))
    => LET L == Len(file.bytes)
           kept == Min(L, processor.max_bytes)
       IN  /\ locals.kind = "base64"
           /\ items = <<TextBlock(locals.header \o locals.body)>>
           /\ locals.body = b64encode([i \in 1..kept |-> file.bytes[i]])
           /\ Len(locals.body) = 4 * ((kept + 2) \div 3)
           /\ HeaderMarkedTruncated <=> L > processor.max_bytes

\* C13 witness: the three bytes "%PD" cut to "%P" on a platform without vision
C13_Witness ==
    /\ PreparedAttachment /\ IsPdf /\ ~processor.supports_vision
    /\ processor.max_bytes = 2 /\ file.bytes = <<37, 80, 68>>
    /\ locals.kind = "base64"
    /\ locals.body = <<"J", "V", "A", "=">>
    /\ HeaderMarkedTruncated

HeaderLine ==
    <<"ATTACHMENT: ", file.path.stem>> \o file.path.ext
        \o <<" (mime: ", locals.mime_type, ", size: ">> \o Decimal(locals.size)
        \o <<" bytes, format: ", locals.kind>>
        \o (IF locals.truncated THEN <<", truncated">> ELSE <<>>)
        \o <<")\n">>

\* C15: every result has exactly one header, leading its first block, of the
\* form "ATTACHMENT: <name> (mime: <type>, size: <n> bytes, format: <kind>[,
\* truncated])" and a newline; every later block is an image.
C15_OneHeaderFirst ==
    PreparedAttachment
    => /\ Len(items) >= 1
       /\ items[1].type = "text"
       /\ Len(items[1].text) >= Len(HeaderLine)
       /\ Take(items[1].text, Len(HeaderLine)) = HeaderLine
       /\ \A i \in (Len(HeaderLine) + 1)..Len(items[1].text) : items[1].text[i] # "ATTACHMENT: "
       /\ \A i \in 2..Len(items) : items[i].type = "image"

\* C15 witness: a result of several blocks
C15_Witness ==
    /\ PreparedAttachment
    /\ Len(items) = 3
    /\ items[1].text[1] = "ATTACHMENT: "
    /\ items[3].type = "image"

\* C16: the size in the header is the size of the file on disk, whatever the
\* budgets kept of it.
C16_HeaderSizeIsFileSize ==
    PreparedAttachment
    => /\ locals.size = Len(file.bytes)
       /\ \E i \in 1..Len(locals.header) :
              /\ locals.header[i] = ", size: "
              /\ \A j \in 1..Len(Decimal(Len(file.bytes))) :
                     locals.header[i + j] = Decimal(Len(file.bytes))[j]
              /\ locals.header[i + Len(Decimal(Len(file.bytes))) + 1] = " bytes, format: "

\* C16 witness: a three-byte file of which one byte is kept
C16_Witness ==
    /\ PreparedAttachment
    /\ Len(file.bytes) = 3 /\ processor.max_bytes = 1
    /\ HeaderMarkedTruncated
    /\ Len(locals.body) = 1
    /\ locals.size = 3

\* C17: the extension is matched without regard to case; an extension not in
\* the table is text/plain and goes the plain-text path.
C17_ExtensionLookup ==
    PreparedAttachment
    => LET ext == file.path.ext
       IN  /\ ext \in {<<".","b","i","n">>, <<>>} =>
                  locals.mime_type = "text/plain" /\ locals.kind = "text"
           /\ ext = <<".","J","S","O","N">> =>
                  locals.mime_type = "application/json" /\ locals.kind = "text"
           /\ ext = <<".","t","x","t">> =>
                  locals.mime_type = "text/plain" /\ locals.kind = "text"
           /\ ext \in {<<".","p","d","f">>, <<".","P","D","F">>} =>
                  locals.mime_type = "application/pdf" /\ locals.kind # "text"

\* C17 witness: a file with an extension the table does not know
C17_Witness ==
    /\ PreparedAttachment
    /\ file.path.ext = <<".","b","i","n">>
    /\ file.bytes = <<65>>
    /\ locals.mime_type = "text/plain"
    /\ locals.body = <<"A">>

----------------------------------------------------------------------------
(* Properties of the session: capabilities, errors, requests *)

\* the step is a call of initialize_genai that returns
InitializeReturns == pc' = "initialize_genai" /\ outcome' = "returned"

CreateRaised ==
    /\ pc \in {"chat_completion", "generate_ai_response"}
    /\ sent # <<>>
    /\ args.transport.raises

\* C19: when the chat-completion request raises, chat_completion surfaces
\* that same error, same kind and same message.
C19_TransportErrorUnmodified ==
    CreateRaised => (outcome = args.transport.kind /\ message = args.transport.reply)

\* C19 (amended): an error of the request reaches the caller as a plain
\* Exception whose message is "Error during chat completion: " followed by
\* the text of the original error; a failure while the request is assembled
\* (an image file that is missing) reaches the caller as it was raised and
\* nothing is sent.
C19_TransportErrorWrapped ==
    /\ CreateRaised =>
           /\ outcome = "Exception"
           /\ message = <<"Error during chat completion: ">> \o args.transport.reply
    /\ (pc \in {"chat_completion", "generate_ai_response"} /\ outcome = "FileNotFoundError") =>
           /\ sent = <<>>
           /\ Len(message) = 2
           /\ message[1] \in {"Image not found: ", "No such file or directory: "}
           /\ message[2] \notin existing

\* C19 witness: the endpoint refuses the connection
C19_Witness ==
    /\ CreateRaised
    /\ args.transport.kind = "APIConnectionError"
    /\ outcome = "Exception"
    /\ message = <<"Error during chat completion: ", "Connection error.">>

\* C20: a generate_ai_response call sends at most one chat-completion
\* request; when the request fails the call ends with the error and the
\* request is not sent again.
C20_AtMostOneRequest ==
    pc = "generate_ai_response" =>
        /\ Len(sent) <= 1
        /\ (sent # <<>> /\ args.transport.raises) =>
               (Len(sent) = 1 /\ outcome = "Exception" /\ response = <<>>)
        /\ outcome \notin {"returned", "Exception"} => sent = <<>>

\* C20 witness: a request that was sent once and failed
C20_Witness ==
    /\ pc = "generate_ai_response"
    /\ args.transport.raises
    /\ Len(sent) = 1
    /\ outcome = "Exception"

----------------------------------------------------------------------------
(* Properties of the formatter *)

\* the blocks of a message the formatter has an entry for: text blocks, and
\* image blocks with a path on a platform with vision
Rendered(content_items) ==
    {i \in 1..Len(content_items) :
        \/ content_items[i].type = "text"
        \/ /\ content_items[i].type = "image"
           /\ content_items[i].image_path # NoImagePath
           /\ ai_platform.supports_vision}

\* the number of rendered blocks among the first i
RenderedThrough(content_items, i) == Cardinality({k \in Rendered(content_items) : k <= i})

\* the MIME type of the data URI, by the extension of the image in lower case
MimeByExtension(ext) ==
    CASE ext = <<".","p","n","g">>     -> "image/png"
      [] ext = <<".","j","p","g">>     -> "image/jpeg"
      [] ext = <<".","j","p","e","g">> -> "image/jpeg"
      [] ext = <<".","g","i","f">>     -> "image/gif"
      [] ext = <<".","w","e","b","p">> -> "image/webp"
      [] OTHER                         -> "image/png"

\* C21: the formatter keeps the role of every message and renders its blocks
\* in their order: a text block as {type: "text", text}, an image block as
\* {type: "image_url", image_url: {url: "data:<mime>;base64,<base64 of the
\* bytes>", detail}}, <mime> given by the extension and image/png for an
\* extension that is not png, jpg, jpeg, gif or webp.
C21_RenderedInOrder ==
    SentARequest =>
        /\ Len(SentMessages) = Len(FormatterInput)
        /\ \A m \in 1..Len(FormatterInput) :
            LET given == FormatterInput[m].content
                out   == SentMessages[m].content
            IN  /\ SentMessages[m].role = FormatterInput[m].role
                /\ Len(out) = Cardinality(Rendered(given))
                /\ \A i \in Rendered(given) :
                    LET entry == out[RenderedThrough(given, i)]
                    IN  IF given[i].type = "text"
                        THEN entry = [type |-> "text", text |-> given[i].text]
                        ELSE /\ entry.type = "image_url"
                             /\ entry.image_url.detail = ai_platform.detail
                             /\ entry.image_url.url =
                                    <<"data:", MimeByExtension(Lower(given[i].image_path.ext)), ";base64,">>
                                    \o b64encode(FileBytes(given[i].image_path))

\* C21 witness: a .bmp image, a text, a .webp image and a .jpeg image were
\* sent in that order
C21_Witness ==
    /\ SentARequest
    /\ pc = "chat_completion"
    /\ Len(SentMessages) = 1
    /\ SentMessages[1].role = "assistant"
    /\ Len(SentMessages[1].content) = 4
    /\ SentMessages[1].content[1].image_url.url = <<"data:", "image/png", ";base64,", "Q", "k", "0", "=">>
    /\ SentMessages[1].content[2] = [type |-> "text", text |-> <<"between">>]
    /\ SentMessages[1].content[3].image_url.url = <<"data:", "image/webp", ";base64,", "U", "g", "=", "=">>
    /\ SentMessages[1].content[4].image_url.url[2] = "image/jpeg"

\* C22: every image_url entry sent carries a detail that is one of "low",
\* "high" and "auto"; a session constructed without image_detail uses "high".
C22_DetailIsLowHighAuto ==
    SentARequest =>
        \A m \in 1..Len(SentMessages) :
            \A i \in 1..Len(SentMessages[m].content) :
                SentMessages[m].content[i].type = "image_url" =>
                    SentMessages[m].content[i].image_url.detail \in {"low", "high", "auto"}

----------------------------------------------------------------------------
(* Properties of the keywords *)

\* the reply of the endpoint reached the keyword
ReplyArrived == sent # <<>> /\ ~args.transport.raises

\* C23: verify_that calls generate_ai_response exactly once, with the
\* instructions the caller passed, unchanged, and with the list of paths given
\* (a one-element list for a single path), and hands the response returned to
\* the result assertion.
C23_VerifyThatPassesInstructions ==
    pc = "verify_that" =>
        /\ Len(calls) = 1
        /\ calls[1].instructions = args.instructions
        /\ calls[1].image_paths = IF args.screenshot_paths.is_str
                                  THEN <<args.screenshot_paths.path>>
                                  ELSE args.screenshot_paths.paths
        /\ ReplyArrived =>
               /\ response = args.transport.reply
               /\ parsed = extract_result_and_explanation_from_response(response)

\* "result: pass", as a passing reply has it once in lower case
RESULT_MARKER_LOWER_PASS == Lower(RESULT_MARKER) \o <<" ">> \o PASS_TOKEN

\* the combine step of the last keyword raised
CombineFailed ==
    /\ args.create_combined_image
    /\ \/ args.screenshot_path \notin existing
       \/ args.template_path \notin existing
       \/ args.save_fails

\* C24: in verify_screenshot_matches_look_and_feel_template a failure of the
\* combine step is logged as a warning and the AI is still asked exactly
\* once, with [screenshot, template]; the verdict follows from the response
\* alone; without create_combined_image nothing is combined; and
\* override_instructions, when given, are the instructions sent.
C24_CombineFailureDoesNotAbort ==
    pc = "verify_screenshot_matches_look_and_feel_template" =>
        /\ Len(calls) = 1
        /\ calls[1].image_paths = <<args.screenshot_path, args.template_path>>
        /\ calls[1].instructions =
               IF args.override_instructions \in {None, <<>>}
               THEN LOOK_AND_FEEL_INSTRUCTIONS
               ELSE args.override_instructions
        /\ Len(combined) = IF args.create_combined_image THEN 1 ELSE 0
        /\ CombineFailed <=> (log # <<>> /\ log[1].level = "warn")
        /\ CombineFailed => log[1].msg[1] = "Could not create combined image: "
        /\ outcome # "AssertionError" \/ ReplyArrived
        /\ ReplyArrived =>
               /\ outcome \in {"passed", "AssertionError"}
               /\ outcome = "passed" <=> Contains(Lower(response), RESULT_MARKER_LOWER_PASS)

\* C24 witness: the combined image could not be saved, the AI was asked and
\* the verification passed
C24_Witness ==
    /\ pc = "verify_screenshot_matches_look_and_feel_template"
    /\ args.create_combined_image /\ args.save_fails
    /\ {args.screenshot_path, args.template_path} \subseteq existing
    /\ log[1].level = "warn"
    /\ Len(calls) = 1
    /\ outcome = "passed"

----------------------------------------------------------------------------
(* Properties of the PDF fallback chain *)

C28_RenderAllOrNothing ==
    ( /\ PreparedAttachment /\ IsPdf /\ ~UsableText
      /\ processor.supports_vision
      /\ pdf.fitz /\ pdf.opens
      /\ pdf.render_fails_at \in 1..PagesToRender )
    => /\ locals.kind = "base64"
       /\ Len(items) = 1
       /\ \A i \in 1..Len(items) : items[i].type = "text"
       /\ locals.body = b64encode(Take(file.bytes, processor.max_bytes))

\* C28 witness: the second of two pages fails to render
C28_Witness ==
    /\ PreparedAttachment /\ IsPdf /\ processor.supports_vision
    /\ Len(pdf.pages) = 2 /\ processor.pdf_max_pages = 2
    /\ pdf.opens /\ pdf.render_fails_at = 2
    /\ locals.kind = "base64"
    /\ Len(items) = 1

----------------------------------------------------------------------------
(* Properties of the client life cycle *)

CLIENT_NOT_INITIALIZED == <<"GenAI client not initialized. Call initialize_genai() first.">>

\* C29: while the session has no client, chat_completion, and
\* generate_ai_response once its prompt is assembled, raise RuntimeError;
\* nothing is formatted and nothing is sent; an initialize_genai that returns
\* leaves a client, and with a client the RuntimeError does not occur and a
\* request is sent.
C29_NoClientNoRequest ==
    /\ (pc \in {"chat_completion", "generate_ai_response"} /\ client = NoClient) =>
           /\ sent = <<>>
           /\ outcome \in {"RuntimeError", "FileNotFoundError"}
           /\ outcome = "RuntimeError" => message = CLIENT_NOT_INITIALIZED
           /\ outcome = "FileNotFoundError" =>
                  (pc = "generate_ai_response" /\ message[1] = "Image not found: ")
    /\ (pc = "initialize_genai" /\ outcome = "returned") => client # NoClient
    /\ (pc \in {"chat_completion", "generate_ai_response"} /\ client # NoClient) =>
           /\ outcome # "RuntimeError"
           /\ outcome \in {"returned", "Exception"} <=> Len(sent) = 1

\* C29 witness: without a client, a message with an image whose file is
\* missing is refused before the file is opened
C29_Witness ==
    /\ pc = "chat_completion"
    /\ client = NoClient
    /\ ai_platform.supports_vision
    /\ \E m \in 1..Len(args.messages) :
           \E i \in 1..Len(args.messages[m].content) :
               /\ args.messages[m].content[i].type = "image"
               /\ args.messages[m].content[i].image_path # NoImagePath
               /\ args.messages[m].content[i].image_path \notin existing
    /\ outcome = "RuntimeError"
    /\ sent = <<>>

\* C30: an initialize_genai that is given no platform, or a platform without
\* base URL, raises ValueError and leaves client and ai_platform as they
\* were; a platform that requires an API key cannot be constructed without
\* one; Ollama without a key gets the key "ollama".
C30_FailedInitializeChangesNothing ==
    [][ /\ pc' = "initialize_genai" =>
            /\ outcome' = "ValueError" <=>
                   (\/ args'.ai_platform = NoPlatformArg
                    \/ args'.ai_platform.base_url \in {NoneStr, ""})
            /\ outcome' = "ValueError" =>
                   /\ client' = client
                   /\ ai_platform' = ai_platform
                   /\ message' = IF args'.ai_platform = NoPlatformArg
                                 THEN <<"AI platform not specified">>
                                 ELSE <<"Base URL is required">>
        /\ pc = "start" =>
            /\ ai_platform.platform = "Perplexity" => ai_platform.api_key \notin {NoneStr, ""}
            /\ ai_platform.platform = "Ollama" => ai_platform.api_key \notin {NoneStr, ""}
        /\ \A c \in Constructions :
            /\ (c.platform = Perplexity /\ c.api_key \in {NoneStr, ""}) => ~ConstructionSucceeds(c)
            /\ (c.platform = Ollama /\ c.api_key \in {NoneStr, ""}) =>
                   ConstructionPlatform(c).api_key = "ollama" ]_vars

\* C30 witness: a session with a client was handed no platform
C30_Witness ==
    /\ pc = "initialize_genai"
    /\ outcome = "ValueError"
    /\ args.ai_platform = NoPlatformArg
    /\ client # NoClient
    /\ message = <<"AI platform not specified">>

----------------------------------------------------------------------------
(* Properties of concurrent calls *)

\* what the call of a thread returns when nothing else runs: the blocks of
\* prepare_attachment_content (rendering into the directory the call was
\* given), or the prompt of _prepare_prompt, and the exception raised
Alone(th) ==
    IF th.job.kind = "attachment"
    THEN LET r == PrepareIn(processor, th.job.file, th.job.pdf, Len(th.job.file.bytes), th.temp_dir)
         IN  [items |-> r.items, raised |-> r.raised]
    ELSE LET r == _prepare_prompt(AUTOMATOR_INSTRUCTION, th.job.instruction, th.job.image_paths,
                                  ai_platform.supports_vision, existing)
         IN  [items |-> r.value, raised |-> r.raised]

\* every call that has ended returned what it returns alone
DoneAsAlone ==
    \A t \in 1..NumThreads :
        threads[t].pc = "done" =>
            /\ threads[t].items = Alone(threads[t]).items
            /\ threads[t].raised = Alone(threads[t]).raised

\* C25: however the steps of concurrent prepare_attachment_content and
\* _prepare_prompt calls on one instance interleave, each call returns what
\* it returns when run alone, and the budgets and supports_vision of the
\* instance stay as they were.
C25_ConcurrentCallsIndependent ==
    [][ /\ DoneAsAlone'
        /\ processor' = processor
        /\ ai_platform' = ai_platform ]_vars

\* C25 witness: two calls for files of different size have both ended, one
\* of them through the base64 fallback
C25_Witness ==
    /\ \A t \in 1..NumThreads : threads[t].pc = "done"
    /\ threads[1].job.kind = "attachment" /\ threads[2].job.kind = "attachment"
    /\ threads[1].size = 1 /\ threads[2].size = 4
    /\ threads[1].items # <<>> /\ threads[2].items # <<>>
    /\ DoneAsAlone

\* the pages of the PDF have no character that is not whitespace
NoTextOnPages(doc) ==
    \A i \in 1..Len(doc.pages) : \A k \in 1..Len(doc.pages[i]) : doc.pages[i][k] \in Whitespace

\* the call has got as far as the rasterization
Rasterizing(th) ==
    /\ th.job.kind = "attachment"
    /\ Lower(th.job.file.path.ext) = PdfExt
    /\ NoTextOnPages(th.job.pdf)
    /\ processor.supports_vision
    /\ th.pc \in {"render", "fallback", "done"}

\* directories are per call: as many as rasterizations begun, no two calls
\* share one, no two calls have a page image path in common
DirectoriesPerCall ==
    /\ temp_dirs = Cardinality({t \in 1..NumThreads : Rasterizing(threads[t])})
    /\ \A t \in 1..NumThreads : Rasterizing(threads[t]) <=> threads[t].temp_dir # 0
    /\ \A t, u \in 1..NumThreads :
           (t # u /\ threads[t].temp_dir # 0 /\ threads[u].temp_dir # 0) =>
               /\ threads[t].temp_dir # threads[u].temp_dir
               /\ Range(threads[t].image_paths) \cap Range(threads[u].image_paths) = {}

\* C27: every rasterization makes a directory of its own, also when the
\* rendering then fails; page image paths of different calls never collide;
\* no directory is ever removed, so the directories left are as many as the
\* rasterizations attempted.
C27_FreshDirectoryPerCall ==
    [][ /\ DirectoriesPerCall'
        /\ temp_dirs' >= temp_dirs
        /\ \A t \in 1..NumThreads :
               threads[t].temp_dir # 0 => threads'[t].temp_dir = threads[t].temp_dir ]_vars

\* C27 witness: two rasterizations have ended, one with page images and one
\* with a rendering failure, and two directories are left
C27_Witness ==
    /\ threads[1].pc = "done" /\ threads[2].pc = "done"
    /\ threads[1].image_paths # <<>>
    /\ threads[2].job.pdf.render_fails_at = 2 /\ threads[2].image_paths = <<>>
    /\ threads[1].temp_dir # 0 /\ threads[2].temp_dir # 0
    /\ temp_dirs = 2

====
